---- MODULE Spec2Model ----
(***************************************************************************)
(* Weather + air-quality pipeline: the two source clients                  *)
(* (src/src/clients), the ETL orchestrator (src/src/etl/                   *)
(* fetch_and_load_weather.py) and the raw table (src/src/db.py).           *)
(*                                                                         *)
(* Python values are modelled as follows.  A dict is a TLA+ record (a      *)
(* function from keys to values); 'k in d' is k \in DOMAIN d.  A JSON      *)
(* value held inside a dict is tagged with its type: Null, Num(n), Str(s), *)
(* Obj(record), Arr(sequence), so that a payload of unexpected shape is a  *)
(* value like any other.  A string is the sequence of its                  *)
(* comma-free parts ("Chicago,US" is <<"Chicago", "US">>, "" is <<"">>),   *)
(* so that split(',') and the f-strings that join with ',' are computed.   *)
(* A function that may raise returns Return(v) or Raise(type, msg).        *)
(***************************************************************************)
EXTENDS Integers, Sequences, FiniteSets, Bags, TLC

VARIABLES
    now,            \* the wall clock read by datetime.utcnow()
    req,            \* the weather request in flight: position in _make_request, HTTP trace, result
    call,           \* the last other client operation called directly, with its outcome
    pc,             \* position of main()/run_etl()
    idx,            \* index of the city the current loop of run_etl is at
    cities,         \* WeatherETL.cities
    start_time,     \* run_etl local: the time the run started
    weather_data,   \* run_etl local: city input -> weather result
    aqi_data,       \* run_etl local: city input -> air-quality result
    observations,   \* run_etl local: the assembled records
    aqiCalls,       \* per city input, the calls made to the air-quality client in this run
    table,          \* raw.weather_observations: "absent", or the constraints it was created with
    store,          \* committed rows of raw.weather_observations
    txn,            \* rows as seen inside the open transaction
    loaded,         \* number of statements of the batch executed so far
    summary,        \* the value run_etl returned last
    runs            \* number of run_etl calls started

vars == <<now, req, call, pc, idx, cities, start_time, weather_data, aqi_data, observations,
          aqiCalls, table, store, txn, loaded, summary, runs>>

runVars == <<pc, idx, cities, start_time, weather_data, aqi_data, observations, aqiCalls,
             table, store, txn, loaded, summary, runs>>

---------------------------------------------------------------------------
(* Bounds *)

\* Longest configured city list.
MaxCities == 2
\* Number of pipeline runs followed.
MaxRuns == 2

---------------------------------------------------------------------------
(* Python / JSON values *)

Null == [t |-> "null"]
Num(n) == [t |-> "num", v |-> n]
Str(s) == [t |-> "str", v |-> s]
Obj(r) == [t |-> "obj", v |-> r]
Arr(s) == [t |-> "arr", v |-> s]
\* The empty dict {}.
EmptyDict == <<>>

Return(v) == [raised |-> FALSE, val |-> v]
Raise(type, msg) == [raised |-> TRUE, type |-> type, msg |-> msg]

\* d.get(k, default) on a dict d.
Get(d, k, default) == IF k \in DOMAIN d THEN d[k] ELSE default
\* d[k] = v on a dict d.
Put(d, k, v) == (k :> v) @@ d

\* Exception classes of the requests library that derive from RequestException.
IsRequestException(type) ==
    type \in {"Timeout", "ConnectionError", "HTTPError", "RequestException",
              "RequestsJSONDecodeError"}
IsTimeout(type) == type = "Timeout"

---------------------------------------------------------------------------
(* The HTTP environment *)

\* What one requests.get(url, params, timeout=30) can end in.
TimedOut == [kind |-> "timeout"]
ConnectionFailed == [kind |-> "connerr"]
Response(status, body) == [kind |-> "http", status |-> status, body |-> body]

\* A body that is not JSON.  response.json() raises
\* requests.exceptions.JSONDecodeError (a RequestException) in requests >= 2.27
\* and a plain ValueError before; exc names the class the installed release
\* raises.
NotJson(exc) == [t |-> "notjson", exc |-> exc]

\* response.raise_for_status()
RaiseForStatus(status) ==
    IF status >= 400
    THEN Raise("HTTPError", <<"HTTP error", ToString(status)>>)
    ELSE Return(Null)

\* response.json()
ResponseJson(body) ==
    IF body.t = "notjson"
    THEN Raise(body.exc, <<"Expecting value">>)
    ELSE Return(body)

\* datetime.isoformat(): the text of time t.
IsoFormat(t) == [t |-> "str", iso |-> t]

\* Truth value of a Python value.
Truthy(v) ==
    CASE v.t = "null" -> FALSE
      [] v.t = "str" -> v.v # <<"">>
      [] v.t = "num" -> v.v # 0
      [] v.t = "arr" -> v.v # <<>>
      [] v.t = "obj" -> DOMAIN v.v # {}
      [] OTHER -> TRUE

\* x.get(k, default) where x is any Python value: only a dict has .get.
PyGet(x, k, default) ==
    IF x.t = "obj"
    THEN Return(Get(x.v, k, default))
    ELSE Raise("AttributeError", <<x.t, "object has no attribute get">>)

---------------------------------------------------------------------------
(* WeatherClient (src/src/clients/weather_client.py) *)

\* Default of _make_request's retries parameter.
retries == 3

\* (variant: a constant wait)
BackoffWaitNoGrowth(attempt) == 1
\* wait_time = 2 ** attempt
BackoffWait(attempt) == 2 ^ attempt

\* The try block of one loop iteration of _make_request: what it does with the
\* outcome o of requests.get on this attempt.
\*   "return"   : the function returns val
\*   "continue" : rate limited; sleep secs, then the next iteration
\*   "raise"    : an exception leaves the try block
\* (variant: 401 and 404 are left to raise_for_status, like any other 4xx)
TryRequestRetries401(o, attempt) ==
    CASE o.kind = "timeout" -> [k |-> "raise", exc |-> Raise("Timeout", <<"Request timed out">>)]
      [] o.kind = "connerr" -> [k |-> "raise", exc |-> Raise("ConnectionError", <<"Connection failed">>)]
      [] o.status \in {401, 404} -> [k |-> "raise", exc |-> Raise("HTTPError", <<"HTTP error", ToString(o.status)>>)]
      [] o.status = 429 -> [k |-> "continue", secs |-> BackoffWait(attempt)]
      [] OTHER ->
            IF RaiseForStatus(o.status).raised
            THEN [k |-> "raise", exc |-> RaiseForStatus(o.status)]
            ELSE IF ResponseJson(o.body).raised
            THEN [k |-> "raise", exc |-> ResponseJson(o.body)]
            ELSE [k |-> "return", val |-> ResponseJson(o.body).val]
TryRequest(o, attempt) ==
    CASE o.kind = "timeout" -> [k |-> "raise", exc |-> Raise("Timeout", <<"Request timed out">>)]
      [] o.kind = "connerr" -> [k |-> "raise", exc |-> Raise("ConnectionError", <<"Connection failed">>)]
      [] o.status = 401 -> [k |-> "raise", exc |-> Raise("ValueError", <<"Invalid API key (401 Unauthorized)">>)]
      [] o.status = 404 -> [k |-> "raise", exc |-> Raise("ValueError", <<"Location not found (404)">>)]
      [] o.status = 429 -> [k |-> "continue", secs |-> BackoffWait(attempt)]
      [] OTHER ->
            IF RaiseForStatus(o.status).raised
            THEN [k |-> "raise", exc |-> RaiseForStatus(o.status)]
            ELSE IF ResponseJson(o.body).raised
            THEN [k |-> "raise", exc |-> ResponseJson(o.body)]
            ELSE [k |-> "return", val |-> ResponseJson(o.body).val]

\* The except clauses of _make_request: an exception of this type raised on
\* this attempt propagates to the caller (TRUE) or is swallowed so that the
\* loop goes on (FALSE).
\* (variant: the last attempt's failure is swallowed like the earlier ones)
PropagatesNever(type, attempt) == ~IsRequestException(type)
Propagates(type, attempt) ==
    IF IsTimeout(type) THEN attempt = retries - 1
    ELSE IF IsRequestException(type) THEN attempt = retries - 1
    ELSE TRUE

\* The exception raised when the loop runs out of iterations.
LoopExhausted == Raise("RequestException", <<"Max retries exceeded">>)

\* One iteration of the loop of _make_request, on outcome o of requests.get.
\*   "sleep" : inside time.sleep(secs), the next iteration follows
\*   "next"  : the next iteration follows at once
\*   "done"  : _make_request has returned or raised out
MakeRequestStep(o, attempt) ==
    LET t == TryRequest(o, attempt)
    IN  CASE t.k = "return" -> [k |-> "done", out |-> Return(t.val)]
          [] t.k = "continue" -> [k |-> "sleep", secs |-> t.secs]
          [] OTHER ->
               IF Propagates(t.exc.type, attempt)
               THEN [k |-> "done", out |-> t.exc]
               ELSE IF attempt + 1 < retries
               THEN [k |-> "next"]
               ELSE [k |-> "done", out |-> LoopExhausted]

\* After time.sleep: 'continue' goes to the next iteration, or falls out of the
\* loop into the final raise.
AfterSleep(attempt) ==
    IF attempt + 1 < retries
    THEN [k |-> "next"]
    ELSE [k |-> "done", out |-> LoopExhausted]

\* str(e)
ExcStr(exc) == Str(exc.msg)

\* The error envelope the weather fetch operations return from 'except'.
WeatherErrorEnvelope(exc, query, t) ==
    [error |-> ExcStr(exc), api_timestamp |-> IsoFormat(t), query |-> query]

\* query = f"{city},{country_code}" if country_code else city
CityQuery(city, country_code) ==
    IF Truthy(country_code) THEN Str(city.v \o country_code.v) ELSE city

\* parse_city_country: city_input.split(','), first part and optional second.
parse_city_country(city_input) ==
    [city |-> Str(<<city_input[1]>>),
     country |-> IF Len(city_input) > 1 THEN Str(<<city_input[2]>>) ELSE Null]

\* (variant: the reading is returned as received, without the metadata)
ByCityResultNoMetadata(out, query, t) ==
    IF out.raised THEN WeatherErrorEnvelope(out, query, t)
    ELSE IF out.val.t # "obj"
    THEN WeatherErrorEnvelope(PyGet(out.val, "cod", Null), query, t)
    ELSE out.val.v
\* get_current_weather_by_city, from the outcome of _make_request on.
ByCityResult(out, query, t) ==
    IF out.raised THEN WeatherErrorEnvelope(out, query, t)
    ELSE
      LET cod == PyGet(out.val, "cod", Null)
      IN  IF cod.raised THEN WeatherErrorEnvelope(cod, query, t)
          ELSE IF cod.val # Num(200)
          THEN WeatherErrorEnvelope(
                   Raise("ValueError",
                         <<"OpenWeatherMap API error: ">>
                             \o Get(out.val.v, "message", Str(<<"Unknown API error">>)).v),
                   query, t)
          ELSE Put(Put(out.val.v, "api_timestamp", IsoFormat(t)), "query", query)

\* data['api_timestamp'] = ...; data['query'] = ... : item assignment works on a
\* dict; on a list the string index raises, on None/str/number assignment raises.
\* get_current_weather_by_coords, from the outcome of _make_request on.
ByCoordsResult(out, query, t) ==
    IF out.raised THEN WeatherErrorEnvelope(out, query, t)
    ELSE IF out.val.t # "obj"
    THEN WeatherErrorEnvelope(
             Raise("TypeError", <<out.val.t, "does not support item assignment">>), query, t)
    ELSE Put(Put(out.val.v, "api_timestamp", IsoFormat(t)), "query", query)

\* datetime.utcfromtimestamp(x): x must be a number.
UtcFromTimestamp(x) ==
    IF x.t = "num" THEN Return(x.v)
    ELSE Raise("TypeError", <<"an integer is required, got ", x.t>>)

\* x[0] on a Python value: a non-empty list gives its first element.
First(x) ==
    IF x.t = "arr"
    THEN IF x.v # <<>> THEN Return(x.v[1])
         ELSE Raise("IndexError", <<"list index out of range">>)
    ELSE Raise("TypeError", <<x.t, " object is not subscriptable">>)

\* The first of a sequence of results that raised, or the last one.
RECURSIVE FirstRaised(_)
FirstRaised(rs) ==
    IF Len(rs) = 1 \/ rs[1].raised THEN rs[1] ELSE FirstRaised(Tail(rs))

\* WeatherClient.extract_key_metrics
WeatherExtractKeyMetrics(wdata) ==
    IF "error" \in DOMAIN wdata THEN wdata
    ELSE
      LET main == Get(wdata, "main", Obj(EmptyDict))
          weather == First(Get(wdata, "weather", Arr(<<Obj(EmptyDict)>>)))
          sys == Get(wdata, "sys", Obj(EmptyDict))
          coord == Get(wdata, "coord", Obj(EmptyDict))
          steps == <<weather,
                     PyGet(sys, "country", Null),
                     PyGet(coord, "lat", Null),
                     PyGet(main, "temp", Null),
                     IF weather.raised THEN weather ELSE PyGet(weather.val, "main", Null),
                     UtcFromTimestamp(Get(wdata, "dt", Num(0)))>>
          bad == FirstRaised(steps)
      IN  IF bad.raised
          THEN [error |-> Str(<<"Failed to parse weather data: ">> \o bad.msg)]
          ELSE [city |-> Get(wdata, "name", Null),
                country |-> PyGet(sys, "country", Null).val,
                latitude |-> PyGet(coord, "lat", Null).val,
                longitude |-> PyGet(coord, "lon", Null).val,
                temperature |-> PyGet(main, "temp", Null).val,
                humidity |-> PyGet(main, "humidity", Null).val,
                weather_main |-> PyGet(weather.val, "main", Null).val,
                observation_time |-> IsoFormat(UtcFromTimestamp(Get(wdata, "dt", Num(0))).val),
                api_timestamp |-> Get(wdata, "api_timestamp", Null)]

---------------------------------------------------------------------------
(* AirQualityClient (src/src/clients/air_quality_client.py) *)

\* {'lat': latitude, 'lon': longitude}
CoordEcho(latitude, longitude) == Obj([lat |-> latitude, lon |-> longitude])

\* The try block shared by get_current_aqi_by_coordinates and
\* get_current_aqi_by_zip: requests.get, raise_for_status, json, and the
\* metadata added to the result; echo is the dict of the keys that echo the
\* request.
AqiTry(o, echo, t) ==
    CASE o.kind = "timeout" -> Raise("Timeout", <<"Request timed out">>)
      [] o.kind = "connerr" -> Raise("ConnectionError", <<"Connection failed">>)
      [] RaiseForStatus(o.status).raised -> RaiseForStatus(o.status)
      [] ResponseJson(o.body).raised -> ResponseJson(o.body)
      [] OTHER ->
           LET data == ResponseJson(o.body).val
           IN  IF data.t = "arr"
               THEN Return(echo @@ [observations |-> data,
                                    api_timestamp |-> IsoFormat(t),
                                    total_observations |-> Num(Len(data.v))])
               ELSE IF data.t = "obj"
               THEN Return(echo @@ ("api_timestamp" :> IsoFormat(t)) @@ data.v)
               ELSE Raise("TypeError", <<data.t, " object does not support item assignment">>)

\* get_current_aqi_by_coordinates: has_key is bool(self.api_key), o the outcome
\* of the one requests.get it makes.
AqiByCoordinates(has_key, latitude, longitude, o, t) ==
    LET echo == [coordinates |-> CoordEcho(latitude, longitude)]
        r == AqiTry(o, echo, t)
    IN  IF ~has_key
        THEN Return(echo @@ [error |-> Str(<<"AirNow API key not configured">>),
                             api_timestamp |-> IsoFormat(t)])
        ELSE IF ~r.raised THEN r
        ELSE IF IsRequestException(r.type)
        THEN Return(echo @@ [error |-> ExcStr(r), api_timestamp |-> IsoFormat(t)])
        ELSE Return(echo @@ [error |-> Str(<<"Unexpected error: ">> \o r.msg),
                             api_timestamp |-> IsoFormat(t)])

\* get_current_aqi_by_zip
AqiByZip(has_key, zip_code, country_code, o, t) ==
    LET r == AqiTry(o, [zip_code |-> zip_code, country_code |-> country_code], t)
    IN  IF ~has_key
        THEN Return([error |-> Str(<<"AirNow API key not configured">>),
                     api_timestamp |-> IsoFormat(t),
                     zip_code |-> zip_code])
        ELSE IF ~r.raised THEN r
        ELSE IF IsRequestException(r.type)
        THEN Return([error |-> ExcStr(r),
                     api_timestamp |-> IsoFormat(t),
                     zip_code |-> zip_code])
        ELSE r

\* Whether get_aqi_for_weather_data goes on to get_current_aqi_by_coordinates.
AqiReachesCoordinates(weather) ==
    /\ "error" \notin DOMAIN weather
    /\ LET coord == Get(weather, "coord", Obj(EmptyDict))
       IN  /\ coord.t = "obj"
           /\ Get(coord.v, "lat", Null) # Null
           /\ Get(coord.v, "lon", Null) # Null

\* get_aqi_for_weather_data
AqiForWeatherData(weather, has_key, o, t) ==
    IF "error" \in DOMAIN weather
    THEN Return([error |-> Str(<<"Cannot fetch AQI: Weather data contains error">>),
                 api_timestamp |-> IsoFormat(t)])
    ELSE
      LET coord == Get(weather, "coord", Obj(EmptyDict))
          lat == PyGet(coord, "lat", Null)
          lon == PyGet(coord, "lon", Null)
      IN  IF lat.raised
          THEN Return([error |-> Str(<<"Failed to process weather data: ">> \o lat.msg),
                       api_timestamp |-> IsoFormat(t)])
          ELSE IF lat.val = Null \/ lon.val = Null
          THEN Return([error |-> Str(<<"Weather data missing coordinates">>),
                       api_timestamp |-> IsoFormat(t)])
          ELSE AqiByCoordinates(has_key, lat.val, lon.val, o, t)

\* max([obs.get('AQI', 0) for obs in observations]), observations a non-empty
\* list of dicts.
RECURSIVE MaxAqi(_)
MaxAqi(obs) ==
    LET a == Get(obs[1].v, "AQI", Num(0)).v
    IN  IF Len(obs) = 1 THEN a
        ELSE IF a > MaxAqi(Tail(obs)) THEN a ELSE MaxAqi(Tail(obs))

\* AirQualityClient.extract_key_metrics
AqiExtractKeyMetrics(aqi) ==
    IF "error" \in DOMAIN aqi THEN aqi
    ELSE
      LET obsv == Get(aqi, "observations", Arr(<<>>))
      IN  IF ~Truthy(obsv)
          THEN [error |-> Str(<<"No air quality observations found">>),
                api_timestamp |-> Get(aqi, "api_timestamp", Null)]
          ELSE IF obsv.t # "arr"
                  \/ \E i \in DOMAIN obsv.v : obsv.v[i].t # "obj"
          THEN [error |-> Str(<<"Failed to parse AQI data: ">>)]
          ELSE [overall_aqi |-> Num(MaxAqi(obsv.v)),
                total_observations |-> Num(Len(obsv.v)),
                api_timestamp |-> Get(aqi, "api_timestamp", Null)]

---------------------------------------------------------------------------
(* Inputs: configured cities and what the two providers answer *)

\* The city inputs a configuration may list ("Chicago,US", "Paris", "Chicago,").
CityInputs == {<<"Chicago", "US">>, <<"Paris">>, <<"Chicago", "">>}

\* Observation times (dt) the weather provider reports.
Dts == {1, 2}
\* The clock at start; later than every dt above.
StartTime == 10

\* The provider's answer for a place: current weather of the named city.
WeatherBody(name, dt) ==
    [cod |-> Num(200),
     name |-> Str(<<name>>),
     coord |-> Obj([lat |-> Num(41), lon |-> Num(87)]),
     sys |-> Obj([country |-> Str(<<"US">>)]),
     dt |-> Num(dt),
     main |-> Obj([temp |-> Num(20), humidity |-> Num(45)]),
     weather |-> Arr(<<Obj([main |-> Str(<<"Clear">>)])>>)]

\* d without key k.
Without(d, k) == [x \in DOMAIN d \ {k} |-> d[x]]

\* Answers with status 200 whose body has one field missing or of another
\* shape than documented.
MalformedWeatherBodies(name) ==
    LET b == WeatherBody(name, 1)
    IN  {Without(b, "coord"), Put(b, "coord", Null),
         Put(b, "coord", Obj([lon |-> Num(87)])),
         Put(b, "sys", Null), Without(b, "sys"),
         Without(b, "dt"), Put(b, "dt", Str(<<"noon">>)),
         Without(b, "name"), Put(b, "name", Null),
         Put(b, "weather", Arr(<<>>))}

\* Status 200 with a JSON body that is an error report or no dict at all.
OddWeatherBodies ==
    {Obj([cod |-> Str(<<"404">>), message |-> Str(<<"city not found">>)]),
     Obj([cod |-> Num(500)]),
     Arr(<<>>), Null,
     NotJson("RequestsJSONDecodeError"), NotJson("ValueError")}

FailedStatuses == {400, 401, 404, 429, 500}

\* Everything one requests.get of the weather client can end in, for a query
\* about the named city.
WeatherOutcomes(name) ==
    {TimedOut, ConnectionFailed}
    \cup {Response(st, Null) : st \in FailedStatuses}
    \cup {Response(200, Obj(WeatherBody(name, dt))) : dt \in Dts}
    \cup {Response(200, Obj(b)) : b \in MalformedWeatherBodies(name)}
    \cup {Response(200, b) : b \in OddWeatherBodies}

\* One pollutant observation of the air-quality provider.
AqiObservation(parameter, value) ==
    Obj([ParameterName |-> Str(<<parameter>>), AQI |-> Num(value)])

\* Everything the one requests.get of the air-quality client can end in.
AqiOutcomes ==
    {TimedOut, ConnectionFailed}
    \cup {Response(st, Null) : st \in FailedStatuses}
    \cup {Response(200, b) :
            b \in {Arr(<<AqiObservation("PM2.5", 42), AqiObservation("OZONE", 61)>>),
                   Arr(<<AqiObservation("PM2.5", 501)>>),
                   Arr(<<>>),
                   Arr(<<Null>>),
                   Obj([WebServiceError |-> Str(<<"Invalid request">>)]),
                   Str(<<"busy">>), Null,
                   NotJson("RequestsJSONDecodeError"), NotJson("ValueError")}}

---------------------------------------------------------------------------
(* The weather request in flight *)

NoRequest == [op |-> "none"]

\* A fetch operation of the weather client has been called: it is about to
\* enter the loop of _make_request.
NewRequest(op, query) ==
    [op |-> op, query |-> query, phase |-> "get", attempt |-> 0, events |-> <<>>]

\* How one requests.get ended: "timeout", "connerr", or the status as text.
OutcomeLabel(o) == IF o.kind = "http" THEN ToString(o.status) ELSE o.kind

\* The provider answered 200 with a reading (a JSON object whose cod is 200).
IsReading(o) ==
    /\ o.kind = "http" /\ o.status = 200
    /\ o.body.t = "obj"
    /\ Get(o.body.v, "cod", Null) = Num(200)

GetEvent(attempt, o) ==
    [e |-> "get", attempt |-> attempt, outcome |-> OutcomeLabel(o),
     reading |-> IsReading(o)]
SleepEvent(attempt, secs) == [e |-> "sleep", attempt |-> attempt, secs |-> secs]

\* The value the called fetch operation returns, given what _make_request
\* returned or raised.
FetchResult(op, out, query, t) ==
    IF op = "by_city" THEN ByCityResult(out, query, t)
    ELSE ByCoordsResult(out, query, t)

\* _make_request has returned or raised: the fetch operation finishes.
Finished(r, ev, out, t) ==
    [op |-> r.op, query |-> r.query, phase |-> "done", attempt |-> r.attempt,
     events |-> ev, out |-> out, result |-> FetchResult(r.op, out, r.query, t)]

\* The request after requests.get of the current iteration ended in o at time t.
ReqAfterGet(r, o, t) ==
    LET step == MakeRequestStep(o, r.attempt)
        ev == Append(r.events, GetEvent(r.attempt, o))
    IN  CASE step.k = "done" -> Finished(r, ev, step.out, t)
          [] step.k = "sleep" ->
               [r EXCEPT !.phase = "sleep",
                         !.events = Append(ev, SleepEvent(r.attempt, step.secs))]
          [] OTHER -> [r EXCEPT !.attempt = r.attempt + 1, !.events = ev]

\* The seconds the request is sleeping for.
SleepingFor(r) == r.events[Len(r.events)].secs

\* The request after time.sleep returned at time t.
ReqAfterSleep(r, t) ==
    LET step == AfterSleep(r.attempt)
    IN  IF step.k = "done" THEN Finished(r, r.events, step.out, t)
        ELSE [r EXCEPT !.phase = "get", !.attempt = r.attempt + 1]

\* The city a query is about: the text before its first comma.
QueryName(query) == query.v[1]

\* What requests.get of the request in flight can end in.
ReqOutcomes(r) ==
    IF r.op = "none" THEN {} ELSE WeatherOutcomes(QueryName(r.query))

---------------------------------------------------------------------------
(* The client operations called directly (the modules' command-line tests) *)

NoCall == [op |-> "none"]

\* The pipeline's state while it is not running.
RunIdle ==
    /\ pc = "idle"
    /\ idx = 0
    /\ cities = <<>>
    /\ start_time = 0
    /\ weather_data = EmptyDict
    /\ aqi_data = EmptyDict
    /\ observations = <<>>
    /\ aqiCalls = EmptyDict
    /\ table = "absent"
    /\ store = <<>>
    /\ txn = <<>>
    /\ loaded = 0
    /\ summary = EmptyDict
    /\ runs = 0

ClientInit ==
    /\ now = StartTime
    /\ req = NoRequest
    /\ call = NoCall
    /\ RunIdle

\* client.parse_city_country(city_name); client.get_current_weather_by_city(city, country)
CallByCity(city_input) ==
    /\ req.op = "none" /\ call.op = "none"
    /\ LET p == parse_city_country(city_input)
       IN  req' = NewRequest("by_city", CityQuery(p.city, p.country))
    /\ UNCHANGED <<now, call>>

\* client.get_current_weather_by_coords(lat, lon): query = f"{lat},{lon}"
CallByCoords ==
    /\ req.op = "none" /\ call.op = "none"
    /\ req' = NewRequest("by_coords", Str(<<"41", "87">>))
    /\ UNCHANGED <<now, call>>

\* requests.get of the current attempt ends in o; the clock has moved on.
ClientHttpGet(o) ==
    /\ pc = "idle" /\ req.op # "none" /\ req.phase = "get"
    /\ now' = now + 1
    /\ req' = ReqAfterGet(req, o, now')
    /\ UNCHANGED call

\* time.sleep(wait_time) returns.
ClientSleep ==
    /\ pc = "idle" /\ req.op # "none" /\ req.phase = "sleep"
    /\ now' = now + SleepingFor(req)
    /\ req' = ReqAfterSleep(req, now')
    /\ UNCHANGED call

\* client.extract_key_metrics(weather_data) on the result of the fetch.
CallWeatherExtract ==
    /\ pc = "idle" /\ req.op # "none" /\ req.phase = "done" /\ call.op = "none"
    /\ call' = [op |-> "weather_extract", gets |-> 0,
                out |-> Return(WeatherExtractKeyMetrics(req.result))]
    /\ UNCHANGED <<now, req>>

\* air_quality_client.get_aqi_for_weather_data(weather) on the result of the fetch.
CallAqiForWeatherData(has_key, o) ==
    /\ pc = "idle" /\ req.op # "none" /\ req.phase = "done" /\ call.op = "none"
    /\ now' = now + 1
    /\ call' = [op |-> "aqi_for_weather",
                gets |-> IF has_key /\ AqiReachesCoordinates(req.result) THEN 1 ELSE 0,
                http |-> IF has_key /\ AqiReachesCoordinates(req.result)
                         THEN OutcomeLabel(o) ELSE "none",
                out |-> AqiForWeatherData(req.result, has_key, o, now')]
    /\ UNCHANGED req

\* client.get_current_aqi_by_coordinates(nyc_lat, nyc_lon)
CallAqiByCoordinates(has_key, o) ==
    /\ pc = "idle" /\ req.op = "none" /\ call.op = "none"
    /\ now' = now + 1
    /\ call' = [op |-> "aqi_by_coordinates", gets |-> IF has_key THEN 1 ELSE 0,
                http |-> IF has_key THEN OutcomeLabel(o) ELSE "none",
                out |-> AqiByCoordinates(has_key, Num(41), Num(74), o, now')]
    /\ UNCHANGED req

\* client.get_current_aqi_by_zip("10001")
CallAqiByZip(has_key, o) ==
    /\ pc = "idle" /\ req.op = "none" /\ call.op = "none"
    /\ now' = now + 1
    /\ call' = [op |-> "aqi_by_zip", gets |-> IF has_key THEN 1 ELSE 0,
                http |-> IF has_key THEN OutcomeLabel(o) ELSE "none",
                out |-> AqiByZip(has_key, Str(<<"10001">>), Str(<<"US">>), o, now')]
    /\ UNCHANGED req

AqiFetchOps == {"aqi_for_weather", "aqi_by_coordinates", "aqi_by_zip"}

\* client.extract_key_metrics(aqi_data) on what the air-quality fetch returned.
CallAqiExtract ==
    /\ pc = "idle" /\ call.op \in AqiFetchOps /\ ~call.out.raised
    /\ call' = [op |-> "aqi_extract", gets |-> 0, from |-> call.op,
                out |-> Return(AqiExtractKeyMetrics(call.out.val))]
    /\ UNCHANGED <<now, req>>

ClientNext ==
    \/ \E c \in CityInputs : CallByCity(c)
    \/ CallByCoords
    \/ \E o \in ReqOutcomes(req) : ClientHttpGet(o)
    \/ ClientSleep
    \/ CallWeatherExtract
    \/ \E k \in BOOLEAN, o \in AqiOutcomes : CallAqiForWeatherData(k, o)
    \/ \E k \in BOOLEAN, o \in AqiOutcomes : CallAqiByCoordinates(k, o)
    \/ \E k \in BOOLEAN, o \in AqiOutcomes : CallAqiByZip(k, o)
    \/ CallAqiExtract

SpecClient == ClientInit /\ [][ClientNext /\ UNCHANGED runVars]_vars

---------------------------------------------------------------------------
(* The raw table (src/src/db.py, init_db) and the upsert statement *)

\* The state of raw.weather_observations:
\*   "absent"  : the table does not exist
\*   "unkeyed" : created by init_db: a SERIAL primary key and plain indexes, no
\*               unique constraint or unique index over (city, observation_time)
\*   "keyed"   : a table that existed before, with a uniqueness constraint over
\*               (city, observation_time); CREATE TABLE IF NOT EXISTS leaves it
TableStates == {"absent", "unkeyed", "keyed"}

\* init_db: CREATE TABLE IF NOT EXISTS raw.weather_observations (...)
CreateTableIfNotExists(tbl) == IF tbl = "absent" THEN "unkeyed" ELSE tbl

\* Two rows with the same natural key.
SameKey(a, b) == a.city = b.city /\ a.observation_time = b.observation_time

\* (variant: a plain INSERT, the conflict clause has no effect)
UpsertAlwaysInserts(rows, r, t) ==
    Append(rows, r @@ [created_at |-> t, updated_at |-> t])
\* INSERT ... ON CONFLICT (city, observation_time) DO UPDATE SET ..., on a table
\* that has the uniqueness constraint, at transaction time t.
Upsert(rows, r, t) ==
    IF \E i \in DOMAIN rows : SameKey(rows[i], r)
    THEN [i \in DOMAIN rows |->
            IF SameKey(rows[i], r)
            THEN [rows[i] EXCEPT !.country = r.country,
                                 !.latitude = r.latitude,
                                 !.longitude = r.longitude,
                                 !.weather_data = r.weather_data,
                                 !.air_quality_data = r.air_quality_data,
                                 !.updated_at = t]
            ELSE rows[i]]
    ELSE Append(rows, r @@ [created_at |-> t, updated_at |-> t])

\* One execution of insert_sql by cursor.executemany, on the rows the
\* transaction sees.  ON CONFLICT (city, observation_time) needs a unique index
\* or constraint on exactly those columns to infer the arbiter; without one
\* the statement is rejected.
ExecuteInsert(tbl, rows, r, t) ==
    CASE tbl = "absent" ->
           Raise("UndefinedTable", <<"relation raw.weather_observations does not exist">>)
      [] tbl = "unkeyed" ->
           Raise("InvalidColumnReference",
                 <<"there is no unique or exclusion constraint matching the ON CONFLICT specification">>)
      [] OTHER -> Return(Upsert(rows, r, t))

\* (variant: the statements that ran before the failure stay in the table)
AfterRollbackKeepsWrites(committed, pending) == pending
\* get_raw_db_connection: connection.rollback() when the block raised, and
\* connection.commit() when it did not; what the table holds afterwards,
\* given the committed rows and the rows as the transaction left them.
AfterRollback(committed, pending) == committed
AfterCommit(committed, pending) == pending

\* A failure of the database itself (connection refused or lost).
OperationalError == Raise("OperationalError", <<"server closed the connection unexpectedly">>)

---------------------------------------------------------------------------
(* WeatherETL (src/src/etl/fetch_and_load_weather.py) *)

\* json.dumps(x): the JSON text of x.
Dumps(x) == [json |-> x]

\* (variant: the whole city key)
CityPartWholeKey(city) == Str(city)
\* city.split(',')[0]
CityPart(city) == Str(<<city[1]>>)

\* (variant: an air-quality error envelope is stored as null)
AqiPayloadDropsErrors(aqi) ==
    IF aqi # EmptyDict /\ "error" \notin DOMAIN aqi THEN Dumps(aqi) ELSE Null
\* 'air_quality_data': json.dumps(aqi_data) if aqi_data else None
AqiPayload(aqi) == IF aqi # EmptyDict THEN Dumps(aqi) ELSE Null

\* prepare_observation_record(city, weather_data, aqi_data) at time t.
PrepareObservationRecord(city, weather, aqi, t) ==
    LET coord == Get(weather, "coord", Obj(EmptyDict))
        lat == PyGet(coord, "lat", Null)
        lon == PyGet(coord, "lon", Null)
        city_name == Get(weather, "name", CityPart(city))
        country == PyGet(Get(weather, "sys", Obj(EmptyDict)), "country", Null)
        observation_time == UtcFromTimestamp(Get(weather, "dt", Num(0)))
        bad == FirstRaised(<<lat, lon, country, observation_time>>)
        payloads == [weather_data |-> Dumps(weather),
                     air_quality_data |-> AqiPayload(aqi)]
    IN  IF "error" \notin DOMAIN weather
        THEN IF bad.raised THEN bad
             ELSE Return(payloads @@
                         [city |-> IF Truthy(city_name) THEN city_name ELSE CityPart(city),
                          country |-> country.val,
                          latitude |-> lat.val,
                          longitude |-> lon.val,
                          observation_time |-> observation_time.val])
        ELSE Return(payloads @@
                    [city |-> CityPart(city),
                     country |-> Null,
                     latitude |-> Null,
                     longitude |-> Null,
                     observation_time |-> t])

\* (variant: the air-quality client is asked for every city)
SkipsAqiNever(weather) == FALSE
\* fetch_air_quality_data skips the air-quality client for this weather result.
SkipsAqi(weather) == "error" \in DOMAIN weather

\* The entry of fetch_air_quality_data's result for one city.
AqiEntry(weather, o, t) ==
    IF ~SkipsAqi(weather)
    THEN AqiForWeatherData(weather, TRUE, o, t).val
    ELSE [error |-> Str(<<"Weather data unavailable">>), api_timestamp |-> IsoFormat(t)]

\* The keys of a dict filled in the order of the sequence s: each element once,
\* at its first occurrence.
RECURSIVE DictKeys(_)
DictKeys(s) ==
    IF s = <<>> THEN <<>>
    ELSE LET front == DictKeys(SubSeq(s, 1, Len(s) - 1))
             last == s[Len(s)]
         IN  IF \E i \in DOMAIN front : front[i] = last THEN front
             ELSE Append(front, last)

\* len([v for v in d.values() if 'error' in v]) and its complement.
ErrorCount(d) == Cardinality({k \in DOMAIN d : "error" \in DOMAIN d[k]})
SuccessCount(d) == Cardinality({k \in DOMAIN d : "error" \notin DOMAIN d[k]})

\* The summary run_etl returns after a successful load.
SuccessSummary(start, end, cs, records_loaded, wd, ad) ==
    [start_time |-> start,
     end_time |-> end,
     duration_seconds |-> end - start,
     cities_processed |-> Len(cs),
     records_loaded |-> records_loaded,
     weather_successes |-> SuccessCount(wd),
     weather_errors |-> ErrorCount(wd),
     aqi_successes |-> SuccessCount(ad),
     aqi_errors |-> ErrorCount(ad),
     status |-> "success"]

\* (variant: the except clause reports no message)
ErrorSummaryNoMessage(start, end, exc) ==
    [start_time |-> start,
     end_time |-> end,
     duration_seconds |-> end - start,
     status |-> "error"]
\* The summary run_etl returns from its except clause.
ErrorSummary(start, end, exc) ==
    [start_time |-> start,
     end_time |-> end,
     duration_seconds |-> end - start,
     status |-> "error",
     error |-> exc.msg]

---------------------------------------------------------------------------
(* One pipeline run, step by step *)

\* The configured cities of the runs followed.
RunCityInputs == {<<"Chicago", "US">>, <<"Paris">>}

\* Configured city lists: the first city is fixed, the others range over all
\* inputs (a list may name a city twice).
RECURSIVE ListsOfLength(_)
ListsOfLength(n) ==
    IF n = 1 THEN {<<<<"Chicago", "US">>>>}
    ELSE {Append(l, c) : l \in ListsOfLength(n - 1), c \in RunCityInputs}
RunCityLists == UNION {ListsOfLength(n) : n \in 1..MaxCities}

\* What the weather provider answers to the successive requests.get of one
\* fetch during a run: a rejection, a reading, a reading after a rate-limit
\* response, and readings with a field of unexpected shape.
RunWeatherScenarios(name) ==
    {<<Response(404, Null)>>,
     <<Response(429, Null), Response(200, Obj(WeatherBody(name, 1)))>>,
     <<Response(200, Obj(Put(WeatherBody(name, 1), "coord", Null)))>>,
     <<Response(200, Obj(Put(WeatherBody(name, 1), "dt", Str(<<"noon">>))))>>}
    \cup {<<Response(200, Obj(WeatherBody(name, dt)))>> : dt \in Dts}

\* What the air-quality provider answers during a run.
RunAqiOutcomes ==
    {TimedOut, Response(200, Arr(<<AqiObservation("PM2.5", 42), AqiObservation("OZONE", 61)>>))}

\* The request r driven to its end from time t, outs being what its successive
\* requests.get end in: the request and the clock afterwards.
RECURSIVE RunRequest(_, _, _)
RunRequest(r, outs, t) ==
    IF r.phase = "done" \/ (r.phase = "get" /\ outs = <<>>)
    THEN [req |-> r, now |-> t]
    ELSE IF r.phase = "sleep"
    THEN RunRequest(ReqAfterSleep(r, t + SleepingFor(r)), outs, t + SleepingFor(r))
    ELSE RunRequest(ReqAfterGet(r, Head(outs), t + 1), Tail(outs), t + 1)

\* get_current_weather_by_city(city, country) as called by
\* get_weather_for_cities for one city input.
WeatherForCity(city_input, outs, t) ==
    LET p == parse_city_country(city_input)
    IN  RunRequest(NewRequest("by_city", CityQuery(p.city, p.country)), outs, t)

RunInit ==
    /\ now = StartTime
    /\ req = NoRequest
    /\ call = NoCall
    /\ pc = "idle"
    /\ idx = 0
    /\ cities \in RunCityLists
    /\ start_time = 0
    /\ weather_data = EmptyDict
    /\ aqi_data = EmptyDict
    /\ observations = <<>>
    /\ aqiCalls = EmptyDict
    /\ table \in {"absent", "keyed"}
    /\ store = <<>>
    /\ txn = <<>>
    /\ loaded = 0
    /\ summary = EmptyDict
    /\ runs = 0

\* main(): init_db(), then etl = WeatherETL().
InitDb ==
    /\ pc = "idle"
    /\ table' = CreateTableIfNotExists(table)
    /\ pc' = "ready"
    /\ UNCHANGED <<now, idx, cities, start_time, weather_data, aqi_data,
                   observations, aqiCalls, store, txn, loaded, summary, runs>>

\* The scheduler's task: etl = WeatherETL(), with no init_db before it.
ScheduledTask ==
    /\ pc = "idle"
    /\ pc' = "ready"
    /\ UNCHANGED <<now, idx, cities, start_time, weather_data, aqi_data,
                   observations, aqiCalls, table, store, txn, loaded, summary, runs>>

\* run_etl is called: start_time is read, fetch_weather_data begins.
RunEtl ==
    /\ pc \in {"ready", "done"}
    /\ runs < MaxRuns
    /\ runs' = runs + 1
    /\ now' = now + 1
    /\ start_time' = now'
    /\ pc' = "weather"
    /\ idx' = 1
    /\ weather_data' = EmptyDict
    /\ aqi_data' = EmptyDict
    /\ observations' = <<>>
    /\ aqiCalls' = EmptyDict
    /\ UNCHANGED <<cities, table, store, txn, loaded, summary>>

\* run_etl's except clause: the run ends with an error summary.
RunFails(exc) ==
    /\ pc' = "done"
    /\ idx' = 0
    /\ summary' = ErrorSummary(start_time, now', exc)

\* One iteration of get_weather_for_cities: results[city_input] = weather_data.
FetchWeather(outs) ==
    /\ pc = "weather"
    /\ LET r == WeatherForCity(cities[idx], outs, now)
       IN  /\ r.req.phase = "done"
           /\ weather_data' = Put(weather_data, cities[idx], r.req.result)
           /\ now' = r.now
    /\ IF idx < Len(cities)
       THEN idx' = idx + 1 /\ pc' = pc
       ELSE idx' = 1 /\ pc' = "aqi"
    /\ UNCHANGED <<cities, start_time, aqi_data, observations, aqiCalls,
                   table, store, txn, loaded, summary, runs>>

\* One iteration of fetch_air_quality_data, over weather_data.items().
FetchAqi(o) ==
    /\ pc = "aqi"
    /\ LET city == DictKeys(cities)[idx]
           weather == weather_data[city]
       IN  /\ now' = IF AqiReachesCoordinates(weather) /\ ~SkipsAqi(weather)
                     THEN now + 1 ELSE now
           /\ aqi_data' = Put(aqi_data, city, AqiEntry(weather, o, now'))
           /\ aqiCalls' = Put(aqiCalls, city,
                              Get(aqiCalls, city, 0) + IF SkipsAqi(weather) THEN 0 ELSE 1)
    /\ IF idx < Len(DictKeys(cities))
       THEN idx' = idx + 1 /\ pc' = pc
       ELSE idx' = 1 /\ pc' = "assemble"
    /\ UNCHANGED <<cities, start_time, weather_data, observations,
                   table, store, txn, loaded, summary, runs>>

\* One iteration of run_etl's loop over self.cities.
Assemble ==
    /\ pc = "assemble"
    /\ now' = now
    /\ LET city == cities[idx]
           record == PrepareObservationRecord(city,
                                              Get(weather_data, city, EmptyDict),
                                              Get(aqi_data, city, EmptyDict), now)
       IN  IF record.raised
           THEN RunFails(record) /\ UNCHANGED observations
           ELSE /\ observations' = Append(observations, record.val)
                /\ IF idx < Len(cities)
                   THEN idx' = idx + 1 /\ pc' = pc
                   ELSE idx' = 0 /\ pc' = "load"
                /\ UNCHANGED summary
    /\ UNCHANGED <<cities, start_time, weather_data, aqi_data, aqiCalls,
                   table, store, txn, loaded, runs>>

\* load_observations_to_db: get_raw_db_connection() opens the transaction.
LoadBegin(fails) ==
    /\ pc = "load"
    /\ now' = now + 1
    /\ IF fails
       THEN RunFails(OperationalError) /\ UNCHANGED <<txn, loaded>>
       ELSE /\ txn' = store
            /\ loaded' = 0
            /\ pc' = "insert"
            /\ UNCHANGED <<idx, summary>>
    /\ UNCHANGED <<cities, start_time, weather_data, aqi_data, observations,
                   aqiCalls, table, store, runs>>

\* cursor.executemany runs insert_sql for the next record; an error rolls the
\* transaction back and is raised again.
LoadExecute(fails) ==
    /\ pc = "insert"
    /\ loaded < Len(observations)
    /\ now' = now
    /\ LET r == IF fails THEN OperationalError
                ELSE ExecuteInsert(table, txn, observations[loaded + 1], now)
       IN  IF r.raised
           THEN /\ RunFails(r)
                /\ store' = AfterRollback(store, txn)
                /\ txn' = <<>>
                /\ UNCHANGED loaded
           ELSE /\ txn' = r.val
                /\ loaded' = loaded + 1
                /\ UNCHANGED <<pc, idx, summary, store>>
    /\ UNCHANGED <<cities, start_time, weather_data, aqi_data, observations,
                   aqiCalls, table, runs>>

\* connection.commit() on leaving the with block, then the summary.
LoadCommit(fails) ==
    /\ pc = "insert"
    /\ loaded = Len(observations)
    /\ now' = now
    /\ IF fails
       THEN RunFails(OperationalError) /\ store' = AfterRollback(store, txn)
       ELSE /\ store' = AfterCommit(store, txn)
            /\ pc' = "done"
            /\ idx' = 0
            /\ summary' = SuccessSummary(start_time, now', cities, loaded,
                                         weather_data, aqi_data)
    /\ txn' = <<>>
    /\ UNCHANGED <<cities, start_time, weather_data, aqi_data, observations,
                   aqiCalls, table, loaded, runs>>

\* The scenarios of the fetch the run is at.
CurrentScenarios ==
    IF pc = "weather" THEN RunWeatherScenarios(cities[idx][1]) ELSE {}

RunNext ==
    \/ InitDb
    \/ ScheduledTask
    \/ RunEtl
    \/ \E outs \in CurrentScenarios : FetchWeather(outs)
    \/ \E o \in RunAqiOutcomes : FetchAqi(o)
    \/ Assemble
    \/ \E f \in BOOLEAN : LoadBegin(f)
    \/ \E f \in BOOLEAN : LoadExecute(f)
    \/ \E f \in BOOLEAN : LoadCommit(f)

Spec == RunInit /\ [][RunNext /\ UNCHANGED <<req, call>>]_vars

---------------------------------------------------------------------------
(* prepare_observation_record called on its own *)

\* Every result get_weather_for_cities can hold for a city input: the fetch
\* driven to its end with each attempt ending the same way.
RecordWeatherResults(city_input) ==
    {WeatherForCity(city_input, <<o, o, o>>, StartTime).req.result :
        o \in WeatherOutcomes(city_input[1])}

\* Every air-quality result the record of a city can be assembled with: none
\* ({} of aqi_data.get(city, {})), or the entry fetch_air_quality_data makes
\* for the weather result.
RecordAqiResults(weather) ==
    {EmptyDict} \cup {AqiEntry(weather, o, StartTime) : o \in AqiOutcomes}

\* etl.prepare_observation_record(city, weather, aqi)
CallPrepare(city_input, weather, aqi) ==
    /\ call.op = "none"
    /\ call' = [op |-> "prepare", city |-> city_input, weather |-> weather,
                aqi |-> aqi, at |-> now,
                out |-> PrepareObservationRecord(city_input, weather, aqi, now)]
    /\ UNCHANGED <<now, req>>

RecordNext ==
    \E c \in CityInputs :
        \E w \in RecordWeatherResults(c) :
            \E a \in RecordAqiResults(w) : CallPrepare(c, w, a)

SpecRecord == ClientInit /\ [][RecordNext /\ UNCHANGED runVars]_vars

---------------------------------------------------------------------------
(* WeatherDataTransformer (src/src/etl/transform_to_analytics.py): validation *)

\* How a payload column of a stored row reaches the transformer:
\*   Dumps(x)     : the JSON text of x (a text column, or the record as it was
\*                  assembled)
\*   MalformedText: text that is not JSON
\*   FromJsonb(x) : the Python object psycopg2 builds from a jsonb column, as
\*                  the columns init_db creates are
\*   Null         : SQL NULL
MalformedText == [text |-> "{'cod': 200"]
FromJsonb(x) == [parsed |-> x]

\* (variant: text that is not JSON loads as an empty dict)
JsonLoadsLenient(s) ==
    IF "json" \in DOMAIN s THEN Return(s.json)
    ELSE IF "text" \in DOMAIN s THEN Return(EmptyDict)
    ELSE Raise("TypeError",
               <<"the JSON object must be str, bytes or bytearray">>)
\* json.loads(s)
JsonLoads(s) ==
    IF "json" \in DOMAIN s THEN Return(s.json)
    ELSE IF "text" \in DOMAIN s
    THEN Raise("JSONDecodeError",
               <<"Expecting property name enclosed in double quotes",
                 " line 1 column 2 (char 1)">>)
    ELSE Raise("TypeError",
               <<"the JSON object must be str, bytes or bytearray">>)

\* The issue text f"{label}: {detail}", as the parts its colons separate: the
\* label first.
Issue(label, detail) == <<label, " " \o Head(detail)>> \o Tail(detail)

\* f"{x}" of a JSON value, as the parts its colons separate.
ValueText(x) ==
    CASE x.t = "str" -> x.v
      [] x.t = "num" -> <<ToString(x.v)>>
      [] OTHER -> <<x.t>>

\* x < lo or x > hi
OutOfRange(x, lo, hi) ==
    IF x.t = "num" THEN Return(x.v < lo \/ x.v > hi)
    ELSE Raise("TypeError", <<"'<' not supported between instances of ", x.t, " and int">>)

\* One range rule: value = d.get(field); if value is not None and it is out
\* of [lo, hi], one issue.  The issues it adds, or the exception it raises.
RangeCheck(d, field, lo, hi, label, unit) ==
    LET x == PyGet(d, field, Null)
    IN  IF x.raised THEN x
        ELSE IF x.val = Null THEN Return(<<>>)
        ELSE LET c == OutOfRange(x.val, lo, hi)
             IN  IF c.raised THEN c
                 ELSE Return(IF c.val THEN <<Issue(label, <<ToString(x.val.v) \o unit>>)>>
                             ELSE <<>>)

NoException == Return(Null)

required_fields == <<"main", "weather", "coord">>

\* for field in required_fields: if field not in weather_data: one issue
RECURSIVE MissingFieldIssues(_, _)
MissingFieldIssues(w, fields) ==
    IF fields = <<>> THEN <<>>
    ELSE (IF Head(fields) \notin DOMAIN w
          THEN <<Issue("Missing weather field", <<Head(fields)>>)>> ELSE <<>>)
         \o MissingFieldIssues(w, Tail(fields))

\* validate_weather_data, the weather part: the issues appended, whether
\* is_valid is still True, and the exception that ended the part, if any.
WeatherChecks(w) ==
    IF "error" \in DOMAIN w
    THEN [issues |-> <<Issue("Weather API error", ValueText(w.error))>>,
          is_valid |-> FALSE, exc |-> NoException]
    ELSE LET missing == MissingFieldIssues(w, required_fields)
             main_data == Get(w, "main", Obj(EmptyDict))
             temp == RangeCheck(main_data, "temp", -100, 70, "Temperature out of range", "°C")
             humidity == RangeCheck(main_data, "humidity", 0, 100, "Humidity out of range", "%")
             ranges == IF temp.raised THEN <<>>
                       ELSE temp.val \o (IF humidity.raised THEN <<>> ELSE humidity.val)
         IN  [issues |-> missing \o ranges,
              is_valid |-> missing = <<>>,
              exc |-> IF temp.raised THEN temp
                      ELSE IF humidity.raised THEN humidity ELSE NoException]

\* for obs in observations: the AQI range rule on each observation.
RECURSIVE AqiObservationChecks(_)
AqiObservationChecks(obs) ==
    IF obs = <<>> THEN [issues |-> <<>>, exc |-> NoException]
    ELSE LET c == RangeCheck(Head(obs), "AQI", 0, 500, "AQI out of range", "")
             rest == AqiObservationChecks(Tail(obs))
         IN  IF c.raised THEN [issues |-> <<>>, exc |-> c]
             ELSE [issues |-> c.val \o rest.issues, exc |-> rest.exc]

\* validate_weather_data, the air-quality part.
AqiChecks(a) ==
    IF a # EmptyDict /\ "error" \notin DOMAIN a
    THEN LET obsv == Get(a, "observations", Arr(<<>>))
         IN  IF ~Truthy(obsv) THEN [issues |-> <<>>, exc |-> NoException]
             ELSE IF obsv.t # "arr"
             THEN [issues |-> <<>>,
                   exc |-> Raise("AttributeError", <<obsv.t, " has no attribute get">>)]
             ELSE AqiObservationChecks(obsv.v)
    ELSE [issues |-> <<>>, exc |-> NoException]

\* _clean_weather_data and _clean_aqi_data round measurements to one decimal
\* (AQI and pressure to whole numbers, concentrations to three decimals); the
\* measurements followed here are whole numbers, which rounding returns as
\* they are.
CleanWeatherData(w) == w
CleanAqiData(a) == a

\* The issue an except clause of validate_weather_data appends.
ExceptionIssue(exc) ==
    IF exc.type = "JSONDecodeError" THEN Issue("JSON parsing error", exc.msg)
    ELSE Issue("Validation error", exc.msg)

\* validate_weather_data(record)
ValidateWeatherData(record) ==
    LET w == JsonLoads(record.weather_data)
        a == IF record.air_quality_data # Null
             THEN JsonLoads(record.air_quality_data) ELSE Return(EmptyDict)
        wc == WeatherChecks(w.val)
        ac == AqiChecks(a.val)
        exc == IF w.raised THEN w
               ELSE IF a.raised THEN a
               ELSE IF wc.exc.raised THEN wc.exc
               ELSE ac.exc
        issues == IF w.raised \/ a.raised THEN <<>>
                  ELSE IF wc.exc.raised THEN wc.issues
                  ELSE wc.issues \o ac.issues
    IN  [record_id |-> record.id,
         city |-> record.city,
         is_valid |-> IF exc.raised THEN FALSE ELSE wc.is_valid,
         issues |-> IF exc.raised THEN Append(issues, ExceptionIssue(exc)) ELSE issues,
         cleaned_weather_data |-> IF exc.raised THEN Null ELSE Obj(CleanWeatherData(w.val)),
         cleaned_aqi_data |-> IF exc.raised THEN Null ELSE Obj(CleanAqiData(a.val))]

---------------------------------------------------------------------------
(* Stored rows the transformer reads, and validate_weather_data on its own *)

\* A weather payload with the given measurements.
StoredWeather(temp, humidity) ==
    Put(WeatherBody("Chicago", 1), "main", Obj([temp |-> temp, humidity |-> humidity]))

\* An air-quality payload with the given AQI values, one observation each.
StoredAqi(values) ==
    [observations |-> Arr([i \in DOMAIN values |-> AqiObservation("PM2.5", values[i])]),
     api_timestamp |-> IsoFormat(StartTime)]

\* What the pipeline stores for a city whose weather fetch failed.
StoredWeatherError ==
    [error |-> Str(<<"API request failed", " 404 Not Found">>),
     api_timestamp |-> IsoFormat(StartTime)]
StoredAqiError ==
    [error |-> Str(<<"Weather data unavailable">>), api_timestamp |-> IsoFormat(StartTime)]

Temps == {-101, -100, 20, 70, 71}
Humidities == {-1, 0, 45, 100, 150}

\* The weather_data column of a row: JSON text, text that is not JSON, or the
\* object of a jsonb column.
WeatherColumns ==
    {Dumps(StoredWeather(Num(t), Num(h))) : t \in Temps, h \in Humidities}
    \cup {Dumps(Without(StoredWeather(Num(75), Num(150)), "coord")),
          Dumps(Without(StoredWeather(Num(20), Num(45)), "main")),
          Dumps(StoredWeather(Str(<<"warm">>), Num(45))),
          Dumps(Put(WeatherBody("Chicago", 1), "main", Null)),
          Dumps(StoredWeatherError),
          MalformedText,
          FromJsonb(StoredWeather(Num(20), Num(45)))}

\* The air_quality_data column of a row.
AqiColumns ==
    {Dumps(StoredAqi(<<v>>)) : v \in {-1, 0, 42, 500, 501}}
    \cup {Dumps(StoredAqi(<<42, 501>>)), Dumps(StoredAqi(<<>>)),
          Dumps(StoredAqiError), Null, MalformedText,
          FromJsonb(StoredAqi(<<42>>))}

StoredRecord(w, a) ==
    [id |-> 1, city |-> Str(<<"Chicago">>), weather_data |-> w, air_quality_data |-> a]

CallValidate(record) ==
    /\ call.op = "none"
    /\ call' = [op |-> "validate", record |-> record, out |-> ValidateWeatherData(record)]
    /\ UNCHANGED <<now, req>>

ValidateNext ==
    \E w \in WeatherColumns : \E a \in AqiColumns : CallValidate(StoredRecord(w, a))

SpecValidate == ClientInit /\ [][ValidateNext /\ UNCHANGED runVars]_vars

---------------------------------------------------------------------------
(* WeatherDataTransformer.run_data_quality_check *)

MaxRecords == 10

\* The rows the quality check meets, one of each kind: in range; humidity 150;
\* a failed city; coordinates missing and both measurements out of range;
\* text that is not JSON; a jsonb column.
QualityRecords ==
    {StoredRecord(Dumps(StoredWeather(Num(20), Num(45))), Dumps(StoredAqi(<<42>>))),
     StoredRecord(Dumps(StoredWeather(Num(20), Num(150))), Dumps(StoredAqi(<<42>>))),
     StoredRecord(Dumps(StoredWeatherError), Dumps(StoredAqiError)),
     StoredRecord(Dumps(Without(StoredWeather(Num(75), Num(150)), "coord")), Null),
     StoredRecord(MalformedText, Null),
     StoredRecord(FromJsonb(StoredWeather(Num(20), Num(45))), FromJsonb(StoredAqi(<<42>>)))}

\* The list s as a bag.
RECURSIVE SeqToBag(_)
SeqToBag(s) == IF s = <<>> THEN EmptyBag ELSE SetToBag({Head(s)}) (+) SeqToBag(Tail(s))

\* issue.split(':')[0] if ':' in issue else 'Other'
Category(issue) == IF Len(issue) > 1 THEN issue[1] ELSE "Other"

\* issue_categories: for each category, the number of issues of all_issues
\* that have it.
IssueCategories(all_issues) ==
    [c \in {Category(i) : i \in BagToSet(all_issues)} |->
        BagCardinality([i \in {j \in BagToSet(all_issues) : Category(j) = c} |-> all_issues[i]])]

\* round(p / q, 2) in hundredths, for p >= 0 and q > 0 with no tie at the third
\* decimal (a tie needs a q that is a multiple of 8, which the fractions
\* rounded here do not have).
RoundHundredthsDown(p, q) == (100 * p) \div q
RoundHundredths(p, q) == (200 * p + q) \div (2 * q)

\* (variant: the score is cut off after two decimals)
DataQualityScoreTruncated(valid_records, total_records) ==
    IF total_records > 0 THEN RoundHundredthsDown(valid_records * 100, total_records) ELSE 0
\* round((valid_records / total_records) * 100, 2) if total_records > 0 else 0,
\* in hundredths.
DataQualityScore(valid_records, total_records) ==
    IF total_records > 0 THEN RoundHundredths(valid_records * 100, total_records) ELSE 0

NoReport == [error |-> <<"none">>]
NoValidation == [record_id |-> 0]

\* The query returned n rows; nothing is checked yet.
QualityBegin(n) ==
    /\ call.op = "none"
    /\ call' = [op |-> "quality", pc |-> "loop", total_records |-> n, checked |-> 0,
                valid_records |-> 0, all_issues |-> EmptyBag, issues_raised |-> 0,
                record |-> StoredRecord(Null, Null), validation |-> NoValidation,
                report |-> NoReport]
    /\ UNCHANGED <<now, req>>

\* The connection or the query failed: except Exception returns the error.
QualityQueryFails ==
    /\ call.op = "none"
    /\ call' = [op |-> "quality", pc |-> "done", total_records |-> 0, checked |-> 0,
                valid_records |-> 0, all_issues |-> EmptyBag, issues_raised |-> 0,
                record |-> StoredRecord(Null, Null), validation |-> NoValidation,
                report |-> [error |-> <<"connection to server failed">>]]
    /\ UNCHANGED <<now, req>>

\* One pass of the loop over the records.  issues_raised counts the issues of
\* every validation; the code keeps no such count.
QualityCheckRecord(record) ==
    /\ call.op = "quality"
    /\ call.pc = "loop"
    /\ call.checked < call.total_records
    /\ LET validation == ValidateWeatherData(record)
       IN  call' = [call EXCEPT
                     !.checked = @ + 1,
                     !.record = record,
                     !.validation = validation,
                     !.issues_raised = @ + Len(validation.issues),
                     !.valid_records = IF validation.is_valid THEN @ + 1 ELSE @,
                     !.all_issues = IF validation.is_valid THEN @
                                    ELSE @ (+) SeqToBag(validation.issues)]
    /\ UNCHANGED <<now, req>>

\* After the loop: the report.
QualityReport ==
    /\ call.op = "quality"
    /\ call.pc = "loop"
    /\ call.checked = call.total_records
    /\ call' = [call EXCEPT
                  !.pc = "done",
                  !.report = [total_records |-> call.total_records,
                              valid_records |-> call.valid_records,
                              invalid_records |-> call.total_records - call.valid_records,
                              data_quality_score |->
                                  DataQualityScore(call.valid_records, call.total_records),
                              issue_categories |-> IssueCategories(call.all_issues),
                              checked_at |-> IsoFormat(now)]]
    /\ UNCHANGED <<now, req>>

QualityNext ==
    \/ \E n \in 0..MaxRecords : QualityBegin(n)
    \/ QualityQueryFails
    \/ \E r \in QualityRecords : QualityCheckRecord(r)
    \/ QualityReport

SpecQuality == ClientInit /\ [][QualityNext /\ UNCHANGED runVars]_vars

---------------------------------------------------------------------------
(* WeatherDataTransformer._calculate_trend *)

\* Fractions are pairs [n, d] with d > 0; a figure rounded to two decimals is
\* held in hundredths.  The values followed are whole numbers, not negative.
Frac(n, d) == [n |-> n, d |-> d]

RECURSIVE Sum(_)
Sum(values) == IF values = <<>> THEN 0 ELSE Head(values) + Sum(Tail(values))

RECURSIVE SumOfSquares(_)
SumOfSquares(values) ==
    IF values = <<>> THEN 0 ELSE Head(values) * Head(values) + SumOfSquares(Tail(values))

\* min(values), max(values)
MinOf(values) == CHOOSE x \in {values[i] : i \in DOMAIN values} :
                     \A i \in DOMAIN values : x <= values[i]
MaxOf(values) == CHOOSE x \in {values[i] : i \in DOMAIN values} :
                     \A i \in DOMAIN values : x >= values[i]

\* statistics.mean(values)
Mean(values) == Frac(Sum(values), Len(values))

\* statistics.median(values)
Median(values) ==
    LET sorted == SortSeq(values, LAMBDA a, b : a < b)
        n == Len(values)
    IN  IF n % 2 = 1 THEN Frac(sorted[(n + 1) \div 2], 1)
        ELSE Frac(sorted[n \div 2] + sorted[n \div 2 + 1], 2)

\* The square of statistics.stdev(values) if len(values) > 1 else 0: the
\* sample variance.
StdDevSquared(values) ==
    LET n == Len(values)
    IN  IF n > 1
        THEN Frac(n * SumOfSquares(values) - Sum(values) * Sum(values), n * (n - 1))
        ELSE Frac(0, 1)

\* round(x, 2) of the square root x of the fraction sq, in hundredths: the r with
\* (r - 1/2)^2 <= 10000 sq < (r + 1/2)^2.
RoundRootHundredths(sq, bound) ==
    CHOOSE r \in 0..bound :
        /\ 40000 * sq.n < (2 * r + 1) * (2 * r + 1) * sq.d
        /\ r = 0 \/ (2 * r - 1) * (2 * r - 1) * sq.d <= 40000 * sq.n

\* (variant: the series is split at ceil(n / 2))
MidPointCeil(n) == (n + 1) \div 2
\* mid_point = len(values) // 2
MidPoint(n) == n \div 2

\* values[:mid_point] and values[mid_point:]
FirstHalf(values) == SubSeq(values, 1, MidPoint(Len(values)))
SecondHalf(values) == SubSeq(values, MidPoint(Len(values)) + 1, Len(values))

FirstHalfAvg(values) ==
    IF MidPoint(Len(values)) > 0 THEN Mean(FirstHalf(values)) ELSE Mean(values)
SecondHalfAvg(values) ==
    IF MidPoint(Len(values)) < Len(values) THEN Mean(SecondHalf(values)) ELSE Mean(values)

\* a > b + root * 0.5, for fractions a, b and the square root of the fraction
\* sq.  (No series followed here has a - b = root * 0.5 with a # b, where the
\* floating-point comparison could go either way.)
ExceedsByHalfRoot(a, b, sq) ==
    LET diff == a.n * b.d - b.n * a.d
        den == a.d * b.d
    IN  /\ diff > 0
        /\ 4 * diff * diff * sq.d > sq.n * den * den

\* (variant: the threshold is one standard deviation)
TrendDirectionWholeDeviation(first_half_avg, second_half_avg, sq) ==
    LET whole == Frac(4 * sq.n, sq.d)
    IN  IF ExceedsByHalfRoot(second_half_avg, first_half_avg, whole) THEN "increasing"
        ELSE IF ExceedsByHalfRoot(first_half_avg, second_half_avg, whole) THEN "decreasing"
        ELSE "stable"
\* trend_direction
TrendDirection(first_half_avg, second_half_avg, sq) ==
    IF ExceedsByHalfRoot(second_half_avg, first_half_avg, sq) THEN "increasing"
    ELSE IF ExceedsByHalfRoot(first_half_avg, second_half_avg, sq) THEN "decreasing"
    ELSE "stable"

\* abs(second_half_avg - first_half_avg)
TrendMagnitude(first_half_avg, second_half_avg) ==
    LET diff == second_half_avg.n * first_half_avg.d - first_half_avg.n * second_half_avg.d
    IN  Frac(IF diff < 0 THEN -diff ELSE diff, first_half_avg.d * second_half_avg.d)

RoundFrac(x) == RoundHundredths(x.n, x.d)

NoValuesProvided == [error |-> <<"No values provided">>]

\* (variant: an empty series gets a summary of zeros)
CalculateTrendZeroFilled(values) ==
    IF values = <<>>
    THEN [count |-> 0, average |-> 0, median |-> 0, min |-> 0, max |-> 0, std_dev |-> 0,
          trend_direction |-> "stable", trend_magnitude |-> 0]
    ELSE LET first_half_avg == FirstHalfAvg(values)
             second_half_avg == SecondHalfAvg(values)
             sq == StdDevSquared(values)
         IN  [count |-> Len(values),
              average |-> RoundFrac(Mean(values)),
              median |-> RoundFrac(Median(values)),
              min |-> 100 * MinOf(values),
              max |-> 100 * MaxOf(values),
              std_dev |-> RoundRootHundredths(sq, 100 * (MaxOf(values) + 1)),
              trend_direction |-> TrendDirection(first_half_avg, second_half_avg, sq),
              trend_magnitude |-> RoundFrac(TrendMagnitude(first_half_avg, second_half_avg))]
\* _calculate_trend(values), for a list of numbers.
CalculateTrend(values) ==
    IF values = <<>> THEN NoValuesProvided
    ELSE LET first_half_avg == FirstHalfAvg(values)
             second_half_avg == SecondHalfAvg(values)
             sq == StdDevSquared(values)
         IN  [count |-> Len(values),
              average |-> RoundFrac(Mean(values)),
              median |-> RoundFrac(Median(values)),
              min |-> 100 * MinOf(values),
              max |-> 100 * MaxOf(values),
              std_dev |-> RoundRootHundredths(sq, 100 * (MaxOf(values) + 1)),
              trend_direction |-> TrendDirection(first_half_avg, second_half_avg, sq),
              trend_magnitude |-> RoundFrac(TrendMagnitude(first_half_avg, second_half_avg))]

MaxLen == 5
TrendValues == {0, 1, 3}
ExampleSeries == <<10, 12, 14, 20, 22, 24>>

\* The series _calculate_trend is followed on.
SeriesInputs ==
    UNION {[1..k -> TrendValues] : k \in 0..MaxLen} \cup {ExampleSeries}

\* One call of _calculate_trend; first_half and second_half are the slices it
\* takes the half averages of.
CallCalculateTrend(values) ==
    /\ call.op = "none"
    /\ call' = [op |-> "trend", values |-> values,
                first_half |-> FirstHalf(values), second_half |-> SecondHalf(values),
                out |-> CalculateTrend(values)]
    /\ UNCHANGED <<now, req>>

---------------------------------------------------------------------------
(* WeatherDataTransformer.calculate_weather_trends *)

MaxRows == 3

TrendRow(w, a) == [weather_data |-> w, air_quality_data |-> a]

\* The rows the trend computation meets.
TrendRows ==
    {TrendRow(Dumps(StoredWeather(Num(1), Num(3))), Dumps(StoredAqi(<<42, 61>>))),
     TrendRow(Dumps(StoredWeather(Num(3), Num(0))), Dumps(StoredAqi(<<0>>))),
     TrendRow(Dumps(StoredWeather(Num(3), Num(1))), Dumps(StoredAqi(<<>>))),
     TrendRow(Dumps(StoredWeather(Num(0), Num(1))), Null),
     TrendRow(Dumps(Put(WeatherBody("Chicago", 1), "main", Obj([humidity |-> Num(3)]))),
              Dumps(StoredAqi(<<0, 42>>))),
     TrendRow(Dumps(StoredWeatherError), Dumps(StoredAqiError)),
     TrendRow(MalformedText, Null),
     TrendRow(FromJsonb(StoredWeather(Num(1), Num(3))), FromJsonb(StoredAqi(<<42>>)))}

\* [obs.get('AQI') for obs in observations if obs.get('AQI')], or the exception
\* of the first obs.get that fails.
RECURSIVE AqiList(_)
AqiList(obs) ==
    IF obs = <<>> THEN Return(<<>>)
    ELSE LET x == PyGet(Head(obs), "AQI", Null)
             rest == AqiList(Tail(obs))
         IN  IF x.raised THEN x
             ELSE IF rest.raised THEN rest
             ELSE Return((IF Truthy(x.val) THEN <<x.val.v>> ELSE <<>>) \o rest.val)

\* One measurement of the row: weather_data.get('main', {}).get(field), as
\* the list of values it adds to its series.
Measurement(w, field) ==
    LET x == PyGet(Get(w, "main", Obj(EmptyDict)), field, Null)
    IN  IF x.raised THEN x
        ELSE Return(IF x.val # Null THEN <<x.val.v>> ELSE <<>>)

\* The AQI part of the loop body.
AqiOfRow(a) ==
    IF a # EmptyDict /\ "observations" \in DOMAIN a
    THEN LET aqi_list == AqiList(a.observations.v)
         IN  IF aqi_list.raised THEN aqi_list
             ELSE Return(IF aqi_list.val # <<>> THEN <<MaxOf(aqi_list.val)>> ELSE <<>>)
    ELSE Return(<<>>)

\* The loop body on one row: what it appends to the three series, or the
\* exception it ends in.
RowValues(row) ==
    LET w == JsonLoads(row.weather_data)
        a == IF row.air_quality_data # Null
             THEN JsonLoads(row.air_quality_data) ELSE Return(EmptyDict)
        temp == Measurement(w.val, "temp")
        humidity == Measurement(w.val, "humidity")
        aqi == AqiOfRow(a.val)
    IN  IF w.raised THEN w
        ELSE IF a.raised THEN a
        ELSE IF temp.raised THEN temp
        ELSE IF humidity.raised THEN humidity
        ELSE IF aqi.raised THEN aqi
        ELSE Return([temp |-> temp.val, humidity |-> humidity.val, aqi |-> aqi.val])

NoTrends == [error |-> <<"none">>]

TrendsCall(total, pos, state, result) ==
    [op |-> "trends", pc |-> state, total_observations |-> total, taken |-> pos,
     row |-> TrendRow(Null, Null),
     temperatures |-> <<>>, humidity_values |-> <<>>, aqi_values |-> <<>>,
     trends |-> result]

\* The query returned n rows.
TrendsBegin(n) ==
    /\ call.op = "none"
    /\ call' = IF n = 0
               THEN TrendsCall(0, 0, "done", [error |-> <<"No data found for Chicago in the last 7 days">>])
               ELSE TrendsCall(n, 0, "loop", NoTrends)
    /\ UNCHANGED <<now, req>>

\* The connection or the query failed.
TrendsQueryFails ==
    /\ call.op = "none"
    /\ call' = TrendsCall(0, 0, "done", [error |-> <<"connection to server failed">>])
    /\ UNCHANGED <<now, req>>

\* One pass of the loop over the rows: the row's values are appended, the row
\* is skipped on a JSONDecodeError, and any other exception ends the call in
\* the outer except clause.
TrendsRow(row) ==
    /\ call.op = "trends"
    /\ call.pc = "loop"
    /\ call.taken < call.total_observations
    /\ LET v == RowValues(row)
       IN  call' =
             IF ~v.raised
             THEN [call EXCEPT !.taken = @ + 1, !.row = row,
                               !.temperatures = @ \o v.val.temp,
                               !.humidity_values = @ \o v.val.humidity,
                               !.aqi_values = @ \o v.val.aqi]
             ELSE IF v.type = "JSONDecodeError"
             THEN [call EXCEPT !.taken = @ + 1, !.row = row]
             ELSE [call EXCEPT !.taken = @ + 1, !.row = row, !.pc = "done",
                               !.trends = [error |-> v.msg]]
    /\ UNCHANGED <<now, req>>

\* After the loop: the trends of the three series.
TrendsFinish ==
    /\ call.op = "trends"
    /\ call.pc = "loop"
    /\ call.taken = call.total_observations
    /\ call' = [call EXCEPT
                  !.pc = "done",
                  !.trends = [city |-> Str(<<"Chicago">>),
                              period_days |-> 7,
                              total_observations |-> call.total_observations,
                              temperature_trend |-> CalculateTrend(call.temperatures),
                              humidity_trend |-> CalculateTrend(call.humidity_values),
                              aqi_trend |-> CalculateTrend(call.aqi_values),
                              calculated_at |-> IsoFormat(now)]]
    /\ UNCHANGED <<now, req>>

TrendNext ==
    \/ \E values \in SeriesInputs : CallCalculateTrend(values)
    \/ \E n \in 0..MaxRows : TrendsBegin(n)
    \/ TrendsQueryFails
    \/ \E row \in TrendRows : TrendsRow(row)
    \/ TrendsFinish

SpecTrend == ClientInit /\ [][TrendNext /\ UNCHANGED runVars]_vars

---------------------------------------------------------------------------
(* Properties of the weather request (checked under SpecClient) *)

IsGet(ev) == ev.e = "get"
\* The HTTP attempts the request in flight has made so far, in order.
Gets(r) == IF r.op = "none" THEN <<>> ELSE SelectSeq(r.events, IsGet)
HasResult(r) == r.op # "none" /\ r.phase = "done"

\* Outcomes of an attempt that the request retries.
RetryableOutcomes == {"timeout", "connerr", "429", "500"}
MaxRetriesText == Str(<<"Max retries exceeded">>)

\* The request made the full budget of attempts and each ended in a retryable
\* failure.
AllAttemptsRetryable(r) ==
    /\ Len(Gets(r)) >= retries
    /\ \A i \in 1..retries : Gets(r)[i].outcome \in RetryableOutcomes

\* C3 as stated: when all 3 attempts of a weather request end in retryable
\* failures (timeout, 429, 5xx, connection error, in any order), the fetch
\* returns an error envelope whose cause is 'Max retries exceeded', and there
\* is no fourth attempt.
C3_ExhaustedRetriesReportMaxRetries ==
    /\ Len(Gets(req)) <= retries
    /\ (HasResult(req) /\ AllAttemptsRetryable(req)) =>
          /\ "error" \in DOMAIN req.result
          /\ req.result.error = MaxRetriesText

\* str(e) of the exception an attempt with this outcome raises.
FailureText(outcome) ==
    CASE outcome = "timeout" -> Str(<<"Request timed out">>)
      [] outcome = "connerr" -> Str(<<"Connection failed">>)
      [] OTHER -> Str(<<"HTTP error", outcome>>)

\* C3 amended: when all 3 attempts end in retryable failures the fetch returns
\* an error envelope and makes no fourth attempt; the cause is 'Max retries
\* exceeded' when the third attempt was rate limited (429), and otherwise it
\* is the third attempt's own failure (the timeout or request error).
C3_ExhaustedRetriesReportLastFailure ==
    /\ Len(Gets(req)) <= retries
    /\ (HasResult(req) /\ AllAttemptsRetryable(req)) =>
          /\ "error" \in DOMAIN req.result
          /\ req.result.error =
                IF Gets(req)[retries].outcome = "429" THEN MaxRetriesText
                ELSE FailureText(Gets(req)[retries].outcome)

\* C3 witness: a rate-limit response, then two timeouts: the budget is used up
\* and the fetch has returned.
C3_Witness ==
    /\ HasResult(req) /\ AllAttemptsRetryable(req)
    /\ Gets(req)[1].outcome = "429"
    /\ Gets(req)[retries].outcome = "timeout"

\* Transient failures of a source.
TransientOutcomes == {"timeout", "429", "500"}

\* C4: both clients retry a transient failure: a fetch reports one as an error
\* only after 3 attempts have failed, and never makes more than 3 attempts.
C4_BothClientsRetryTransientFailures ==
    /\ Len(Gets(req)) <= retries
    /\ (HasResult(req) /\ "error" \in DOMAIN req.result
          /\ Gets(req)[Len(Gets(req))].outcome \in TransientOutcomes)
       => Len(Gets(req)) = retries
    /\ (call.op \in AqiFetchOps /\ call.http \in TransientOutcomes)
       => (call.gets <= retries /\
           ((~call.out.raised /\ "error" \in DOMAIN call.out.val) => call.gets = retries))

\* An attempt got a 429 and a later attempt got a reading.
RateLimitedThenReading(r) ==
    \E i, j \in DOMAIN Gets(r) :
        i < j /\ Gets(r)[i].outcome = "429" /\ Gets(r)[j].reading

\* C5: if an attempt of a weather request is rate limited (429) and a later
\* attempt within the budget succeeds, the fetch returns the reading with a
\* timestamp and the query echo added and no error key.
C5_RateLimitThenSuccessReturnsReading ==
    (HasResult(req) /\ RateLimitedThenReading(req)) =>
        /\ "error" \notin DOMAIN req.result
        /\ {"api_timestamp", "query"} \subseteq DOMAIN req.result
        /\ req.result.query = req.query
        /\ req.result.api_timestamp.iso <= now
        /\ \A k \in DOMAIN req.out.val.v : req.result[k] = req.out.val.v[k]
        /\ Len(Gets(req)) <= retries

\* C5 witness: two rate-limit responses, then a reading on the third attempt.
C5_Witness ==
    /\ HasResult(req) /\ RateLimitedThenReading(req)
    /\ req.op = "by_city"
    /\ Len(Gets(req)) = retries

RejectionText(outcome) ==
    IF outcome = "401" THEN Str(<<"Invalid API key (401 Unauthorized)">>)
    ELSE Str(<<"Location not found (404)">>)

\* C6: a 401 or 404 response on any attempt ends the weather request at that
\* attempt: nothing follows it, neither another HTTP attempt nor a backoff
\* wait, and the fetch returns an error envelope naming that cause.
C6_RejectionEndsTheRequest ==
    req.op # "none" =>
        \A i \in DOMAIN req.events :
            (IsGet(req.events[i]) /\ req.events[i].outcome \in {"401", "404"}) =>
                /\ i = Len(req.events)
                /\ req.phase = "done"
                /\ "error" \in DOMAIN req.result
                /\ req.result.error = RejectionText(req.events[i].outcome)
                /\ req.result.error # MaxRetriesText

\* C6 witness: a 401 on the second attempt, after a timeout on the first.
C6_Witness ==
    /\ HasResult(req)
    /\ Len(Gets(req)) = 2
    /\ Gets(req)[1].outcome = "timeout"
    /\ Gets(req)[2].outcome = "401"

\* C7: after a 429 on attempt k (from 0) the weather client waits exactly 2^k
\* time units (1, 2, 4), and a wait happens only after a 429.
C7_BackoffDoubles ==
    req.op # "none" =>
        \A i \in DOMAIN req.events :
            /\ (IsGet(req.events[i]) /\ req.events[i].outcome = "429") =>
                  /\ i < Len(req.events)
                  /\ req.events[i + 1].e = "sleep"
                  /\ req.events[i + 1].secs = 2 ^ req.events[i].attempt
                  /\ req.events[i + 1].secs = <<1, 2, 4>>[req.events[i].attempt + 1]
            /\ req.events[i].e = "sleep" =>
                  /\ i > 1
                  /\ IsGet(req.events[i - 1])
                  /\ req.events[i - 1].outcome = "429"

\* C7 witness: three rate-limit responses, so waits of 1, 2 and 4.
C7_Witness ==
    /\ HasResult(req)
    /\ Len(Gets(req)) = retries
    /\ \A i \in 1..retries : Gets(req)[i].outcome = "429"

\* C8: every fetch operation of the two clients returns a value for every
\* outcome of the HTTP call and never raises to its caller.
C8_FetchOperationsNeverRaise ==
    /\ HasResult(req) => DOMAIN req.result # {}
    /\ call.op \in AqiFetchOps => ~call.out.raised

\* An error envelope with a cause, a capture timestamp and an echo of the
\* request.
CompleteEnvelope(e) ==
    /\ "error" \in DOMAIN e
    /\ "api_timestamp" \in DOMAIN e
    /\ DOMAIN e \cap {"query", "coordinates", "zip_code"} # {}

\* C9: every error envelope produced by a fetch operation or an extraction
\* routine of either client carries a cause, a capture timestamp and an echo
\* of the request that failed.
C9_ErrorEnvelopesAreComplete ==
    /\ (HasResult(req) /\ "error" \in DOMAIN req.result) => CompleteEnvelope(req.result)
    /\ (call.op # "none" /\ ~call.out.raised /\ "error" \in DOMAIN call.out.val)
       => CompleteEnvelope(call.out.val)

\* The time the request has spent in backoff waits so far.
RECURSIVE TotalWait(_)
TotalWait(ev) ==
    IF ev = <<>> THEN 0
    ELSE (IF Head(ev).e = "sleep" THEN Head(ev).secs ELSE 0) + TotalWait(Tail(ev))

\* C30: in the weather client a backoff wait is always followed by another
\* HTTP attempt of the same request: a request that has ended did not end on
\* a wait, no wait follows the third attempt, and the waits of one request
\* add up to at most 1 + 2 = 3 time units.
C30_NoWaitAfterTheFinalAttempt ==
    req.op # "none" =>
        /\ TotalWait(req.events) <= 3
        /\ \A i \in DOMAIN req.events :
              req.events[i].e = "sleep" => req.events[i].attempt < retries - 1
        /\ HasResult(req) => IsGet(req.events[Len(req.events)])

---------------------------------------------------------------------------
(* Properties of the pipeline run (checked under Spec) *)

SynthesizedText == Str(<<"Weather data unavailable">>)

\* C1: for every city whose weather fetch returned an error envelope, the
\* air-quality client is not called for that city, and the air-quality payload
\* of the city's assembled record is the synthesized 'Weather data
\* unavailable' envelope.
C1_WeatherErrorSkipsAirQuality ==
    \A c \in DOMAIN weather_data :
        "error" \in DOMAIN weather_data[c] =>
            /\ Get(aqiCalls, c, 0) = 0
            /\ c \in DOMAIN aqi_data =>
                  /\ DOMAIN aqi_data[c] = {"error", "api_timestamp"}
                  /\ aqi_data[c].error = SynthesizedText
            /\ \A i \in DOMAIN observations :
                  cities[i] = c =>
                      /\ observations[i].air_quality_data = Dumps(aqi_data[c])
                      /\ observations[i].air_quality_data.json.error = SynthesizedText

\* C1 witness: a run that persisted its records, one of them for a city whose
\* weather fetch failed.
C1_Witness ==
    /\ pc = "done"
    /\ summary.status = "success"
    /\ \E i \in DOMAIN observations : "error" \in DOMAIN weather_data[cities[i]]

\* The run ended because the database itself failed.
DatabaseFailed ==
    /\ summary.status = "error"
    /\ summary.error = OperationalError.msg

\* The last record of the batch with the key of record i.
LastWrite(i) ==
    LET same == {j \in DOMAIN observations : SameKey(observations[j], observations[i])}
    IN  observations[CHOOSE j \in same : \A k \in same : k <= j]

\* C2: after an upsert batch against the table the program itself creates,
\* the store holds exactly one row per (city, observation_time) key of the
\* batch, carrying the country, coordinates and payloads of the most recent
\* write for that key and a refreshed update timestamp.
C2_UpsertLeavesOneRowPerKey ==
    (pc = "done" /\ table = "unkeyed" /\ Len(observations) = Len(cities)
        /\ ~DatabaseFailed) =>
        \A i \in DOMAIN observations :
            LET rows == {j \in DOMAIN store : SameKey(store[j], observations[i])}
            IN  /\ Cardinality(rows) = 1
                /\ \A j \in rows :
                      /\ store[j].country = LastWrite(i).country
                      /\ store[j].latitude = LastWrite(i).latitude
                      /\ store[j].longitude = LastWrite(i).longitude
                      /\ store[j].weather_data = LastWrite(i).weather_data
                      /\ store[j].air_quality_data = LastWrite(i).air_quality_data
                      /\ store[j].updated_at = now

\* C10: source-side failures (unavailable, rejected, unexpectedly shaped
\* payload) never make a run end with status 'error': a run that ends in
\* error has assembled one record per city and failed in the batch write.
C10_SourceFailuresNeverAbortTheRun ==
    (pc = "done" /\ summary.status = "error") => Len(observations) = Len(cities)

\* run_etl has returned.
RunReturned == pc = "done"

CountKeys == {"weather_successes", "weather_errors", "aqi_successes", "aqi_errors"}

\* C12: the summary run_etl returns holds the per-source success and failure
\* counts in every run, also when its status is 'error'.
C12_SummaryAlwaysHasCounts ==
    RunReturned => CountKeys \subseteq DOMAIN summary

\* The record assembly stopped at: the exception prepare_observation_record
\* raised for the first city without a record.
AssemblyFailure ==
    LET city == cities[Len(observations) + 1]
    IN  PrepareObservationRecord(city, Get(weather_data, city, EmptyDict),
                                 Get(aqi_data, city, EmptyDict), now)

\* The messages of the exceptions the batch write can raise.
WriteFailureTexts ==
    {OperationalError.msg} \cup
    {ExecuteInsert(tbl, <<>>, observations[1], now).msg : tbl \in {"absent", "unkeyed"}}

\* C13: run_etl always returns a summary; when a step failed with an
\* exception the summary has status 'error' and carries that exception's
\* message, the start time, the end time and the duration, and status
\* 'success' is returned only when every record was assembled and written.
C13_FailedRunReturnsErrorSummary ==
    RunReturned =>
        /\ {"status", "start_time", "end_time", "duration_seconds"} \subseteq DOMAIN summary
        /\ summary.start_time = start_time
        /\ summary.end_time = now
        /\ summary.duration_seconds = now - start_time
        /\ summary.status \in {"success", "error"}
        /\ summary.status = "success" =>
              (Len(observations) = Len(cities) /\ loaded = Len(observations))
        /\ summary.status = "error" =>
              /\ "error" \in DOMAIN summary
              /\ IF Len(observations) < Len(cities)
                 THEN AssemblyFailure.raised /\ summary.error = AssemblyFailure.msg
                 ELSE summary.error \in WriteFailureTexts

\* C13 witness: a run that ended in the except clause because the assembly of
\* a record raised.
C13_Witness ==
    /\ RunReturned
    /\ summary.status = "error"
    /\ Len(observations) < Len(cities)

\* The batch write is under way: load_observations_to_db has been entered.
Writing == pc \in {"load", "insert"}

\* C14: a batch write is all-or-nothing: every step of it except the commit
\* that ends it successfully leaves the table as it was before the batch, and
\* when it fails no row of the batch is committed and the run ends with
\* status 'error' reporting that failure.
C14_BatchWriteIsAllOrNothing ==
    [][Writing =>
          /\ ~(pc' = "done" /\ summary'.status = "success") => store' = store
          /\ (pc' = "done" /\ summary'.status = "error") =>
                 summary'.error \in WriteFailureTexts]_vars

\* C14 witness: a run ended in error by a batch write that failed after a
\* record of the batch had been written in its transaction.
C14_Witness ==
    /\ RunReturned
    /\ summary.status = "error"
    /\ Len(observations) = Len(cities)
    /\ loaded >= 1
    /\ table = "keyed"

\* C15: in one run one record is assembled per configured city, whether or
\* not the fetches for the city succeeded, and the one batch write starts only
\* after every city's record has been assembled: the write never runs on
\* fewer records, and no run returns without having assembled them all.
C15_OneRecordPerCityThenOneWrite ==
    /\ Writing => Len(observations) = Len(cities)
    /\ RunReturned => Len(observations) = Len(cities)

\* The configured cities (by position) whose weather fetch failed.
FailedWeather == {i \in DOMAIN cities : "error" \in DOMAIN weather_data[cities[i]]}

\* The record of the city at position i has a row of its own in the table.
HasOwnRow(i) ==
    \E j \in DOMAIN store : SameKey(store[j], observations[i])

\* C16: for a run over a city list of n entries in which k weather fetches
\* failed and the batch write succeeded, the summary reports cities_processed
\* = n, weather_successes = n - k, weather_errors = k and records_loaded = n,
\* and the records of different cities are rows with different natural keys.
C16_SummaryCountsMatchTheCityList ==
    (RunReturned /\ summary.status = "success") =>
        LET n == Len(cities)
            k == Cardinality(FailedWeather)
        IN  /\ summary.cities_processed = n
            /\ summary.weather_successes = n - k
            /\ summary.weather_errors = k
            /\ summary.records_loaded = n
            /\ \A i, j \in DOMAIN cities :
                  cities[i] # cities[j] =>
                      /\ HasOwnRow(i) /\ HasOwnRow(j)
                      /\ ~SameKey(observations[i], observations[j])

\* The record the city at position i gets from its own fetch results alone.
OwnRecord(i) ==
    PrepareObservationRecord(cities[i], weather_data[cities[i]],
                             aqi_data[cities[i]], now)

\* The table holds the record the city at position i gets from its own fetch
\* results.
OwnRecordPersisted(i) ==
    \E j \in DOMAIN store :
        /\ store[j].city = OwnRecord(i).val.city
        /\ store[j].country = OwnRecord(i).val.country
        /\ store[j].weather_data = OwnRecord(i).val.weather_data
        /\ store[j].air_quality_data = OwnRecord(i).val.air_quality_data

\* The run ended because its batch write failed.
WriteFailed ==
    /\ summary.status = "error"
    /\ Len(observations) = Len(cities)

\* C17: the record persisted for a city depends only on that city's own
\* fetch results: whatever the outcomes of the other cities of the run, a run
\* whose batch write did not fail has persisted, for every city whose own
\* results give a record, that record.
C17_CitiesAreIndependent ==
    (RunReturned /\ ~WriteFailed) =>
        \A i \in DOMAIN cities : ~OwnRecord(i).raised => OwnRecordPersisted(i)

\* The batch written into an empty table at time t.
RECURSIVE UpsertAll(_, _, _)
UpsertAll(rows, batch, t) ==
    IF batch = <<>> THEN rows
    ELSE UpsertAll(Upsert(rows, Head(batch), t), Tail(batch), t)

\* The run under way is the second one, and the first one was aborted by a
\* failure of its batch write.
AfterFailedWrite ==
    /\ runs = 2
    /\ summary # EmptyDict
    /\ summary.status = "error"
    /\ summary.error \in WriteFailureTexts

\* C18: a run whose batch write succeeds, following a run aborted by a
\* batch-write failure, ends as a first run would: it returns status
\* 'success' with one record per city loaded, and the table holds exactly the
\* rows of its own batch; the failed run left no row behind.
C18_FailedWriteDoesNotPoisonTheNextRun ==
    [][(Writing /\ AfterFailedWrite /\ pc' = "done" /\ summary'.status = "success") =>
          /\ Len(observations) = Len(cities)
          /\ summary'.records_loaded = Len(cities)
          /\ summary'.cities_processed = Len(cities)
          /\ store = <<>>
          /\ store' = UpsertAll(<<>>, observations, now')]_vars

\* C18 witness: the first run was aborted by a batch-write failure, and the
\* second run has written every record of its batch and is about to commit.
C18_Witness ==
    /\ pc = "insert"
    /\ AfterFailedWrite
    /\ table = "keyed"
    /\ loaded = Len(observations)
    /\ txn # <<>>

\* The weather fetch of the city at position i failed.
WeatherFailed(i) == "error" \in DOMAIN weather_data[cities[i]]

\* The rows of a table with the natural key of record r.
RowsWithKey(rows, r) == {j \in DOMAIN rows : SameKey(rows[j], r)}

\* The second run is about to commit after a first run that persisted its
\* batch, and the weather source answered every city as in the first run:
\* the table has the row of the same reading for a city whose fetch
\* succeeded, and a row with the same error for a city whose fetch failed.
SecondRunSameResponses ==
    /\ runs = 2
    /\ pc = "insert"
    /\ summary # EmptyDict
    /\ summary.status = "success"
    /\ \A i \in DOMAIN observations :
          IF WeatherFailed(i)
          THEN \E j \in DOMAIN store :
                  /\ store[j].city = observations[i].city
                  /\ "error" \in DOMAIN store[j].weather_data.json
                  /\ store[j].weather_data.json.error = weather_data[cities[i]].error
          ELSE RowsWithKey(store, observations[i]) # {}

\* The second run commits.
SecondCommit == pc' = "done" /\ summary'.status = "success"

\* C29 as stated: running the pipeline twice while both sources return the
\* same responses for every city leaves the number of stored rows unchanged
\* after the second run, for cities whose weather fetch succeeded and for
\* cities whose weather fetch failed alike.
C29_SecondRunAddsNoRows ==
    [][(SecondRunSameResponses /\ SecondCommit) => Len(store') = Len(store)]_vars

\* C29 amended: when both runs persist their batch and the sources return the
\* same responses, the second run adds no row for a city whose weather fetch
\* succeeded (its one row is updated in place) and adds a row for every city
\* whose weather fetch failed, whose record is keyed by the assembly time; the
\* number of rows is unchanged exactly when no weather fetch failed.
C29_SecondRunAddsRowsOnlyForFailedCities ==
    [][(SecondRunSameResponses /\ SecondCommit) =>
          /\ \A i \in DOMAIN observations :
                IF WeatherFailed(i)
                THEN /\ RowsWithKey(store, observations[i]) = {}
                     /\ Cardinality(RowsWithKey(store', observations[i])) = 1
                ELSE /\ Cardinality(RowsWithKey(store, observations[i])) = 1
                     /\ Cardinality(RowsWithKey(store', observations[i])) = 1
          /\ Len(store') >= Len(store)
          /\ Len(store') = Len(store) <=> \A i \in DOMAIN observations : ~WeatherFailed(i)
          /\ \A j \in DOMAIN store :
                \E k \in DOMAIN store' : SameKey(store'[k], store[j])]_vars

\* C29 witness: after two persisted runs over two cities, the table holds one
\* row, written by the first run and updated by the second, for the city
\* whose fetch succeeded, and two rows for the city whose fetch failed.
C29_Witness ==
    /\ RunReturned
    /\ runs = 2
    /\ summary.status = "success"
    /\ Len(store) = 3
    /\ \E j \in DOMAIN store :
          /\ "error" \notin DOMAIN store[j].weather_data.json
          /\ store[j].updated_at > store[j].created_at
    /\ \E j, k \in DOMAIN store :
          /\ j # k
          /\ store[j].city = store[k].city
          /\ "error" \in DOMAIN store[j].weather_data.json
          /\ "error" \in DOMAIN store[k].weather_data.json

---------------------------------------------------------------------------
(* Properties of the assembled record (checked under SpecRecord) *)

Prepared == call.op = "prepare"

\* C11: prepare_observation_record returns a record for every combination of
\* weather result and air-quality result, also for a payload without an error
\* whose coord, sys, dt or name is missing or of another shape; it never
\* raises.
C11_PrepareAlwaysReturnsARecord ==
    Prepared => ~call.out.raised

\* C19 as stated: when the weather result is an error envelope, the record's
\* city equals the city key that was queried, country and coordinates are
\* null, the observation time is the assembly time and the raw weather payload
\* is the envelope itself.
C19_FailedWeatherFallsBackToCityKey ==
    (Prepared /\ "error" \in DOMAIN call.weather) =>
        /\ ~call.out.raised
        /\ call.out.val.city = Str(call.city)
        /\ call.out.val.country = Null
        /\ call.out.val.latitude = Null
        /\ call.out.val.longitude = Null
        /\ call.out.val.observation_time = call.at
        /\ call.out.val.weather_data = Dumps(call.weather)

\* C19 amended: when the weather result is an error envelope, the record's
\* city is the part of the queried city key before its first comma, country
\* and coordinates are null, the observation time is the assembly time and
\* the raw weather payload is the envelope itself.
C19_FailedWeatherFallsBackToCityName ==
    (Prepared /\ "error" \in DOMAIN call.weather) =>
        /\ ~call.out.raised
        /\ call.out.val.city = Str(<<Head(call.city)>>)
        /\ call.out.val.country = Null
        /\ call.out.val.latitude = Null
        /\ call.out.val.longitude = Null
        /\ call.out.val.observation_time = call.at
        /\ call.out.val.weather_data = Dumps(call.weather)

\* C19 witness: a record assembled for "Chicago,US" from a weather error
\* envelope.
C19_Witness ==
    /\ Prepared
    /\ call.city = <<"Chicago", "US">>
    /\ "error" \in DOMAIN call.weather
    /\ ~call.out.raised

\* C20: the record's air-quality payload is null only when there is no
\* air-quality result for the city; a result that exists, an error envelope
\* included, is stored unchanged.
C20_AqiPayloadNullOnlyWhenAbsent ==
    (Prepared /\ ~call.out.raised) =>
        /\ call.out.val.air_quality_data = Null <=> call.aqi = EmptyDict
        /\ call.aqi # EmptyDict => call.out.val.air_quality_data = Dumps(call.aqi)

\* C20 witness: a record assembled with an air-quality error envelope of the
\* client (not the synthesized one), for a weather reading.
C20_Witness ==
    /\ Prepared
    /\ ~call.out.raised
    /\ "error" \notin DOMAIN call.weather
    /\ call.aqi # EmptyDict
    /\ "error" \in DOMAIN call.aqi

---------------------------------------------------------------------------
(* Properties of validate_weather_data (checked under SpecValidate) *)

Validated == call.op = "validate"

\* C21: for every stored record, validate_weather_data reports is_valid = true
\* exactly when its issues list is empty, so a record with a measurement out
\* of range is reported invalid.
\* Fails: a range rule appends its issue and leaves is_valid as it was.
C21_ValidExactlyWhenNoIssues ==
    Validated => (call.out.is_valid <=> call.out.issues = <<>>)

---------------------------------------------------------------------------
(* Properties of run_data_quality_check (checked under SpecQuality) *)

Reported == call.op = "quality" /\ call.pc = "done" /\ "error" \notin DOMAIN call.report

\* C22: in a quality report the category counts sum to the number of issues
\* raised by validating every checked record.
\* Fails: the issues of a record that validation calls valid are left out.
C22_CategoriesCountEveryIssueRaised ==
    Reported => BagCardinality(call.report.issue_categories) = call.issues_raised

ReportCountsAddUp ==
    /\ call.report.valid_records + call.report.invalid_records = call.report.total_records
    /\ call.report.data_quality_score >= 0
    /\ call.report.data_quality_score <= 10000
    /\ call.report.total_records = 0 => call.report.data_quality_score = 0

\* C23 as stated: the score is valid_records / total_records x 100, 0 when no
\* records are checked, valid + invalid = total and the score is between 0
\* and 100.  (The score is held in hundredths.)
C23_ScoreIsTheExactRatio ==
    Reported =>
        /\ ReportCountsAddUp
        /\ call.report.data_quality_score * call.report.total_records
               = 10000 * call.report.valid_records

\* C23 amended: the score is valid_records / total_records x 100 rounded to
\* two decimals (80.0 for 8 valid of 10), 0 when no records are checked,
\* valid + invalid = total and the score is between 0 and 100.
C23_ScoreIsTheRatioRoundedToTwoDecimals ==
    Reported =>
        /\ ReportCountsAddUp
        /\ LET exact == 10000 * call.report.valid_records
               shown == call.report.data_quality_score * call.report.total_records
           IN  /\ 2 * (shown - exact) <= call.report.total_records
               /\ 2 * (exact - shown) <= call.report.total_records
        /\ (call.report.total_records = 10 /\ call.report.valid_records = 8)
               => call.report.data_quality_score = 8000

C23_Witness ==
    /\ Reported
    /\ call.report.total_records = 10
    /\ call.report.valid_records = 8
    /\ call.report.data_quality_score = 8000

Malformed(record) == record.weather_data = MalformedText

\* C24: a stored record whose payload is malformed JSON adds exactly one issue
\* and one invalid record to the quality check, and the check still ends in a
\* report with a score and an issue breakdown, not in an error result.
C24_MalformedRecordIsOneIssue ==
    [][/\ (/\ call.op = "quality"
           /\ call'.op = "quality"
           /\ call'.checked = call.checked + 1
           /\ Malformed(call'.record))
          => /\ call'.valid_records = call.valid_records
             /\ call'.issues_raised = call.issues_raised + 1
             /\ BagCardinality(call'.all_issues) = BagCardinality(call.all_issues) + 1
       /\ (/\ call.op = "quality"
           /\ call'.op = "quality"
           /\ call.pc = "loop"
           /\ call'.pc = "done")
          => /\ "error" \notin DOMAIN call'.report
             /\ {"data_quality_score", "issue_categories"} \subseteq DOMAIN call'.report
             /\ call'.report.invalid_records =
                    call'.report.total_records - call.valid_records]_vars

C24_Witness ==
    /\ Reported
    /\ call.report.valid_records > 0
    /\ "JSON parsing error" \in DOMAIN call.report.issue_categories
    /\ call.report.issue_categories["JSON parsing error"] = 2
    /\ call.report.invalid_records = 2

---------------------------------------------------------------------------
(* Properties of the trend computation (checked under SpecTrend) *)

TrendOfSeries == call.op = "trend" /\ call.values # <<>>

\* The later mean minus the earlier mean of the series split at floor(n / 2),
\* times the product of the two lengths.
HalfMeansGap(values) ==
    LET m == Len(values) \div 2
    IN  Sum(SubSeq(values, m + 1, Len(values))) * m
            - Sum(SubSeq(values, 1, m)) * (Len(values) - m)
HalfLengths(values) == (Len(values) \div 2) * (Len(values) - Len(values) \div 2)

\* gap / lengths is more than half the sample standard deviation of values.
MoreThanHalfDeviation(gap, values) ==
    LET n == Len(values)
    IN  /\ gap > 0
        /\ 4 * gap * gap * n * (n - 1)
              > (n * SumOfSquares(values) - Sum(values) * Sum(values))
                    * HalfLengths(values) * HalfLengths(values)

DirectionFollowsHalfMeans ==
    /\ Len(call.values) < 2 => call.out.std_dev = 0
    /\ Len(call.values) >= 2 =>
          LET gap == HalfMeansGap(call.values)
          IN  /\ call.out.trend_direction = "increasing"
                    <=> MoreThanHalfDeviation(gap, call.values)
              /\ call.out.trend_direction = "decreasing"
                    <=> MoreThanHalfDeviation(-gap, call.values)
              /\ call.out.trend_direction \in {"increasing", "decreasing", "stable"}
    /\ call.values = ExampleSeries =>
          /\ call.out.trend_direction = "increasing"
          /\ call.out.trend_magnitude = 1000

Abs(x) == IF x < 0 THEN -x ELSE x

\* C25 as stated: the direction is 'increasing' exactly when the later half's
\* mean exceeds the earlier half's by more than half the sample standard
\* deviation, 'decreasing' exactly when it is lower by more than that, 'stable'
\* otherwise; the magnitude is the absolute difference of the two half-means;
\* the standard deviation is 0 for fewer than 2 points.  (Figures in
\* hundredths.)
C25_MagnitudeIsTheDifferenceOfHalfMeans ==
    TrendOfSeries =>
        /\ DirectionFollowsHalfMeans
        /\ Len(call.values) >= 2 =>
              call.out.trend_magnitude * HalfLengths(call.values)
                  = 100 * Abs(HalfMeansGap(call.values))

\* C25 amended: as above, with the magnitude the absolute difference of the
\* two half-means rounded to two decimals.
C25_MagnitudeIsTheRoundedDifference ==
    TrendOfSeries =>
        /\ DirectionFollowsHalfMeans
        /\ Len(call.values) >= 2 =>
              2 * Abs(call.out.trend_magnitude * HalfLengths(call.values)
                          - 100 * Abs(HalfMeansGap(call.values)))
                  <= HalfLengths(call.values)

C25_Witness ==
    /\ TrendOfSeries
    /\ call.values = ExampleSeries
    /\ call.out.trend_direction = "increasing"
    /\ call.out.trend_magnitude = 1000
    /\ call.out.std_dev = 576

RowTaken ==
    /\ call.op = "trends"
    /\ call'.op = "trends"
    /\ call'.taken = call.taken + 1

\* The observation list of a row whose payloads are JSON text.
ObservationsOf(row) ==
    IF row.air_quality_data # Null /\ "observations" \in DOMAIN row.air_quality_data.json
    THEN row.air_quality_data.json.observations.v
    ELSE <<>>

WellFormed(row) ==
    /\ "json" \in DOMAIN row.weather_data
    /\ row.air_quality_data # Null => "json" \in DOMAIN row.air_quality_data

\* C26: each stored record whose air-quality payload has a non-empty
\* observation list adds exactly one value to the AQI series, the maximum AQI
\* over its observations; a record with an empty list or none adds nothing.
\* Fails: an observation with AQI 0 is left out before the maximum is taken.
C26_RecordWithObservationsAddsItsMaximum ==
    [][(RowTaken /\ WellFormed(call'.row)) =>
          LET obs == ObservationsOf(call'.row)
          IN  call'.aqi_values =
                  IF obs # <<>>
                  THEN Append(call.aqi_values,
                              MaxOf([i \in DOMAIN obs |-> obs[i].v.AQI.v]))
                  ELSE call.aqi_values]_vars

SeriesTrend(values, trend) ==
    /\ values = <<>> <=> trend = NoValuesProvided
    /\ values # <<>> => /\ "error" \notin DOMAIN trend
                        /\ trend.count = Len(values)

\* C27: the trend of an empty series is the 'No values provided' error and
\* never a summary; in the result of calculate_weather_trends this holds for
\* each of the three series on its own, so an empty series leaves the other
\* two with their summaries.
C27_EmptySeriesIsAnErrorOfItsOwn ==
    /\ call.op = "trend" => SeriesTrend(call.values, call.out)
    /\ (call.op = "trends" /\ call.pc = "done" /\ "error" \notin DOMAIN call.trends) =>
          /\ SeriesTrend(call.temperatures, call.trends.temperature_trend)
          /\ SeriesTrend(call.humidity_values, call.trends.humidity_trend)
          /\ SeriesTrend(call.aqi_values, call.trends.aqi_trend)

C27_Witness ==
    /\ call.op = "trends"
    /\ call.pc = "done"
    /\ "error" \notin DOMAIN call.trends
    /\ call.aqi_values = <<>>
    /\ call.trends.aqi_trend = NoValuesProvided
    /\ call.temperatures # <<>>
    /\ call.trends.temperature_trend.count = Len(call.temperatures)

\* C28: a series of length n is split at floor(n / 2): the earlier half is the
\* first floor(n / 2) values, the later half the rest, so for odd n the middle
\* value is in the later half; a one-value series is 'stable' with
\* magnitude 0.
C28_SplitAtFloorOfHalf ==
    TrendOfSeries =>
        LET n == Len(call.values)
        IN  /\ call.first_half = SubSeq(call.values, 1, n \div 2)
            /\ call.first_half \o call.second_half = call.values
            /\ n % 2 = 1 => /\ Len(call.second_half) = Len(call.first_half) + 1
                            /\ Head(call.second_half) = call.values[(n + 1) \div 2]
            /\ n = 1 => /\ call.out.trend_direction = "stable"
                        /\ call.out.trend_magnitude = 0

C28_Witness ==
    /\ TrendOfSeries
    /\ call.values = <<0, 3, 0>>
    /\ call.first_half = <<0>>
    /\ call.second_half = <<3, 0>>
    /\ call.out.trend_direction = "increasing"

====
